---- MODULE Spec2Model ----
(***************************************************************************)
(* A model of the neo-vm-rs execution engine: the reference counter, the   *)
(* evaluation stacks, the execution contexts, the fetch-dispatch loop and  *)
(* the exception machine, translated from the Rust sources.                *)
(*                                                                         *)
(* Reading conventions used throughout.                                    *)
(*  - Rc<RefCell<T>> pointers are indices into a sequence of T records     *)
(*    (contexts, shared states, compound objects); 0 is Option::None.      *)
(*  - A handler writes engine.state only where the source assigns it. A    *)
(*    handler that leaves by `return Err(VMState::Fault)` returns early    *)
(*    with the state untouched: JumpTable::execute's value is dropped by   *)
(*    execute_instruction (execution_engine.rs:164), and load_context's    *)
(*    Result is dropped by execute_call (control.rs:358).                  *)
(*  - `.unwrap()` on None/Err, and a fallible value used where the item    *)
(*    itself is needed, is a Rust panic: the process is gone. The model    *)
(*    records it in the field `panicked`, after which nothing is enabled.  *)
(*  - Option<Vec<_>> try stacks and Option<Slot> slots are sequences, the  *)
(*    empty sequence standing for None (the code treats None and empty     *)
(*    alike everywhere it reads them).                                     *)
(***************************************************************************)
EXTENDS Integers, Sequences, FiniteSets, TLC

VARIABLES vm, vm2, rcs, conv, sb, es, sc, tj, sq

vars == <<vm, vm2, rcs, conv, sb, es, sc, tj, sq>>

(***************************************************************************)
(* Bounds of the model.  The engine limits are configuration               *)
(* (ExecutionEngineLimits); small values make the limit cases happen.      *)
(***************************************************************************)
MaxStackSize == 6
MaxInvocationStackSize == 3
MaxTryNestingDepth == 2
MaxSteps == 12
MaxRefs == 3
MaxItemSize == 2
MaxIntegerSize == 1
MaxBytes == 33
MaxOutput == 2
MaxItems == 3
MaxNodes == 3
MaxDepth == 4
MaxValue == 70

\* The most bytes an Integer may take (VMInteger::MAX_SIZE).
MAX_SIZE == 32

(***************************************************************************)
(* Opcodes (op_code.rs).                                                   *)
(***************************************************************************)
PUSHINT8 == 0
PUSHINT16 == 1
PUSHINT32 == 2
PUSHINT64 == 3
PUSHINT128 == 4
PUSHINT256 == 5
PUSHDATA1 == 12
PUSHM1 == 15
PUSH0 == 16
PUSH16 == 32
NOP == 33
JMP == 34
JMPIF == 36
JMPLE_L == 51
CALL == 52
CALL_L == 53
ABORT == 56
ASSERT == 57
THROW == 58
TRY == 59
ENDTRY == 61
ENDFINALLY == 63
RET == 64
DROP == 69
DUP == 74
INITSSLOT == 86
INITSLOT == 87
NEWBUFFER == 136
CAT == 139
ADD == 158
DIV == 161
MOD == 162
LT == 181
NEWARRAY0 == 194
NEWMAP == 200
KEYS == 204
SETITEM == 208
UNPACK == 193

(***************************************************************************)
(* BigInt (num-bigint), as the sources use it.  A value is a sign and a    *)
(* magnitude, the magnitude being its little-endian bytes without trailing *)
(* zero bytes; zero is the empty magnitude with no sign.  The values the   *)
(* engine's scripts compute are small: BigInt_from and to_i take them from *)
(* and to the integers on which the arithmetic is done.  The conversions   *)
(* to and from bytes work on magnitudes of any length.                     *)
(***************************************************************************)
RECURSIVE to_bytes_le(_)
to_bytes_le(n) == IF n = 0 THEN <<>> ELSE <<n % 256>> \o to_bytes_le(n \div 256)

BigInt_from(n) == [neg |-> n < 0, mag |-> to_bytes_le(IF n < 0 THEN 0 - n ELSE n)]

RECURSIVE magnitude_value(_)
magnitude_value(mag) ==
  IF mag = <<>> THEN 0 ELSE Head(mag) + 256 * magnitude_value(Tail(mag))

to_i(b) == IF b.neg THEN 0 - magnitude_value(b.mag) ELSE magnitude_value(b.mag)

\* BigUint::from_bytes_le: trailing zero bytes are not part of the magnitude.
RECURSIVE from_bytes_le(_)
from_bytes_le(bytes) ==
  IF bytes = <<>> THEN <<>>
  ELSE IF bytes[Len(bytes)] = 0 THEN from_bytes_le(SubSeq(bytes, 1, Len(bytes) - 1))
  ELSE bytes

from_biguint(neg, mag) == [neg |-> neg /\ mag # <<>>, mag |-> mag]

\* Invert every byte and add one, the carry running up from the first byte.
RECURSIVE twos_complement_le(_, _)
twos_complement_le(bytes, carry) ==
  IF bytes = <<>> THEN <<>>
  ELSE LET inverted == 255 - Head(bytes)
           d == IF carry THEN (inverted + 1) % 256 ELSE inverted
       IN <<d>> \o twos_complement_le(Tail(bytes), carry /\ d = 0)

\* The shortest two's complement of the value, little-endian.
to_signed_bytes_le(b) ==
  LET bytes == IF b.mag = <<>> THEN <<0>> ELSE b.mag
      last_byte == bytes[Len(bytes)]
      is_min == /\ last_byte = 128
                /\ \A i \in 1..(Len(bytes) - 1) : bytes[i] = 0
                /\ b.neg
      extended == IF last_byte > 127 /\ ~is_min THEN Append(bytes, 0) ELSE bytes
  IN IF b.neg THEN twos_complement_le(extended, TRUE) ELSE extended

from_signed_bytes_le(digits) ==
  IF digits = <<>> THEN from_biguint(FALSE, <<>>)
  ELSE IF digits[Len(digits)] > 127
       THEN from_biguint(TRUE, from_bytes_le(twos_complement_le(digits, TRUE)))
       ELSE from_biguint(FALSE, from_bytes_le(digits))

\* The number of bits of the magnitude.
bits(b) ==
  IF b.mag = <<>> THEN 0
  ELSE 8 * (Len(b.mag) - 1)
       + (CHOOSE k \in 1..8 : 2^(k - 1) <= b.mag[Len(b.mag)] /\ b.mag[Len(b.mag)] < 2^k)

(***************************************************************************)
(* Stack items.  Every item is a record of one shape: its type t, the      *)
(* index v of its object when it is tracked (the identity of the Rc), the  *)
(* BigInt n of an Integer, the truth b of a Boolean and the bytes of a     *)
(* ByteString or Buffer.  A Buffer is tracked like a compound; no modelled *)
(* opcode writes into a buffer, so the item carries the buffer's bytes     *)
(* along with the index.                                                   *)
(***************************************************************************)
Item(t, v, n, b, bytes) == [t |-> t, v |-> v, n |-> n, b |-> b, bytes |-> bytes]

NoItem == Item("None", 0, BigInt_from(0), FALSE, <<>>)
Null == Item("Null", 0, BigInt_from(0), FALSE, <<>>)
Integer(n) == Item("Integer", 0, BigInt_from(n), FALSE, <<>>)
BigInteger(big) == Item("Integer", 0, big, FALSE, <<>>)
Boolean(b) == Item("Boolean", 0, BigInt_from(0), b, <<>>)
ByteString(bytes) == Item("ByteString", 0, BigInt_from(0), FALSE, bytes)
Buffer(id, bytes) == Item("Buffer", id, BigInt_from(0), FALSE, bytes)

\* A new ScriptBuilder: nothing emitted, no call made.
ScriptBuilder_new ==
  [output |-> <<>>, call |-> "new", ok |-> TRUE, before |-> <<>>,
   value |-> BigInt_from(0), opcode |-> 0, offset |-> 0]

\* Two evaluation stacks on one reference counter; objs holds the one
\* compound that callers push.  last is the caller's last call: the stack it
\* was made on, its index or count, the item passed or returned.
IdleStacks ==
  [rc |-> [references_count |-> 0, tracked_items |-> {}, zero_referred |-> {}],
   objs |-> <<[type |-> "Array", items |-> <<>>, dict |-> <<>>,
               stack_references |-> 0, object_references |-> <<>>]>>,
   result_stack |-> <<>>,
   shared |-> <<[evaluation_stack |-> <<>>], [evaluation_stack |-> <<>>]>>,
   last |-> [op |-> "new", s |-> 1, n |-> 0, ok |-> TRUE, item |-> NoItem]]

\* No script constructed yet.  instructions holds the offsets of the decoded
\* instructions Script caches; last is the caller's last call.
IdleScript ==
  [value |-> <<>>, strict_mode |-> FALSE, instructions |-> {}, panicked |-> FALSE,
   last |-> [op |-> "idle", ip |-> 0, ok |-> TRUE]]

\* No Tarjan run under way.
IdleTarjan ==
  [stage |-> "idle", marks |-> FALSE, successors |-> <<>>, dfn |-> <<>>,
   on_stack |-> <<>>, stack_items |-> <<>>, stack |-> <<>>, components |-> <<>>,
   index |-> 0, frames |-> <<>>]

\* No square root asked for.
IdleSqrt == [stage |-> "idle", value |-> 0, some |-> FALSE, result |-> 0]

\* No conversion under way.
IdleConversion ==
  [stage |-> "idle", value |-> BigInt_from(0), item |-> NoItem, ok |-> TRUE, err |-> 0]
Compound(type, id) == Item(type, id, BigInt_from(0), FALSE, <<>>)

need_track(item) == item.t \in {"Array", "Struct", "Map", "Buffer"}

RECURSIVE SumFun(_)
SumFun(f) ==
  IF DOMAIN f = {} THEN 0
  ELSE LET x == CHOOSE y \in DOMAIN f : TRUE
       IN f[x] + SumFun([y \in DOMAIN f \ {x} |-> f[y]])

(***************************************************************************)
(* ReferenceCounter (reference_counter.rs).  `m` is any record with the    *)
(* fields rc (the counter) and objs (the compounds' metadata).             *)
(***************************************************************************)
NewCounter == [references_count |-> 0, tracked_items |-> {}, zero_referred |-> {}]

NewObject(type) ==
  [type |-> type, items |-> <<>>, dict |-> <<>>, stack_references |-> 0,
   object_references |-> <<>>]

add_reference_uncounted(m, item, parent) ==
  IF ~need_track(item) THEN m
  ELSE LET refs == m.objs[item.v].object_references
           old == IF parent.v \in DOMAIN refs THEN refs[parent.v] ELSE 0
       IN [m EXCEPT !.rc.tracked_items = @ \cup {item.v},
                    !.objs[item.v].object_references =
                       [p \in DOMAIN refs \cup {parent.v} |->
                          IF p = parent.v THEN old + 1 ELSE refs[p]]]

add_reference(m, item, parent) ==
  LET m1 == [m EXCEPT !.rc.references_count = @ + 1]
  IN IF ~need_track(item) THEN m1
     ELSE LET refs == m.objs[item.v].object_references
              old == IF parent.v \in DOMAIN refs THEN refs[parent.v] ELSE 0
          IN [m1 EXCEPT !.rc.tracked_items = @ \cup {item.v},
                        !.objs[item.v].object_references =
                           [p \in DOMAIN refs \cup {parent.v} |->
                              IF p = parent.v THEN old + 1 ELSE refs[p]]]

add_stack_reference(m, item, count) ==
  LET m1 == [m EXCEPT !.rc.references_count = @ + count]
  IN IF ~need_track(item) THEN m1
     ELSE [m1 EXCEPT !.rc.tracked_items = @ \cup {item.v},
                     !.objs[item.v].stack_references = @ + count,
                     !.rc.zero_referred = @ \ {item.v}]

remove_reference(m, item, parent) ==
  LET m1 == [m EXCEPT !.rc.references_count = @ - 1]
  IN IF ~need_track(item) THEN m1
     ELSE LET refs == m.objs[item.v].object_references
              m2 == IF parent.v \in DOMAIN refs
                    THEN [m1 EXCEPT !.objs[item.v].object_references[parent.v] = @ - 1]
                    ELSE m1
          IN IF m.objs[item.v].stack_references = 0
             THEN [m2 EXCEPT !.rc.zero_referred = @ \cup {item.v}]
             ELSE m2

remove_stack_reference(m, item) ==
  LET m1 == [m EXCEPT !.rc.references_count = @ - 1]
  IN IF ~need_track(item) THEN m1
     ELSE LET m2 == [m1 EXCEPT !.objs[item.v].stack_references = @ - 1]
          IN IF m2.objs[item.v].stack_references = 0
             THEN [m2 EXCEPT !.rc.zero_referred = @ \cup {item.v}]
             ELSE m2

\* The sum the data model speaks of: stack references plus per-parent object
\* references, over the tracked items.
TrackedSum(m) ==
  SumFun([i \in m.rc.tracked_items |->
            m.objs[i].stack_references + SumFun(m.objs[i].object_references)])

(***************************************************************************)
(* OpCode (op_code.rs): the bytes that are opcodes, and operand layout.    *)
(***************************************************************************)
ValidOpcodes ==
  (0..5) \cup (8..65) \cup {67} \cup (69..70) \cup (72..75) \cup (77..78)
  \cup (80..137) \cup (139..142) \cup (144..147) \cup (151..166)
  \cup (168..172) \cup {177} \cup (179..187) \cup (190..198) \cup {200}
  \cup (202..212) \cup (216..217) \cup {219} \cup (224..225)

operand_prefix(op) ==
  CASE op = 12 -> 1
    [] op = 13 -> 2
    [] op = 14 -> 4
    [] OTHER -> 0

operand_size(op) ==
  CASE op = 0 -> 1
    [] op = 1 -> 2
    [] op = 2 -> 4
    [] op = 3 -> 8
    [] op = 4 -> 16
    [] op = 5 -> 32
    [] op = 10 -> 4
    [] op \in {34, 36, 38, 40, 42, 44, 46, 48, 50, CALL} -> 1
    [] op \in {35, 37, 39, 41, 43, 45, 47, 49, 51, 53} -> 4
    [] op = 55 -> 2
    [] op = TRY -> 2
    [] op = 60 -> 8
    [] op = ENDTRY -> 1
    [] op = 62 -> 4
    [] op = 65 -> 4
    [] op = INITSLOT -> 2
    [] op \in {95, 103, 111, 119, 127, 135, 196, 217, 219} -> 1
    [] OTHER -> 0

(***************************************************************************)
(* Instruction (instruction.rs).  A decode yields ok, an Err, or a panic   *)
(* (OpCode::from_u8(..).unwrap() on a byte that is no opcode).             *)
(***************************************************************************)
RECURSIVE from_le_bytes(_)
from_le_bytes(bytes) ==
  IF bytes = <<>> THEN 0 ELSE Head(bytes) + 256 * from_le_bytes(Tail(bytes))

Slice(script, from, to) ==
  [i \in 1..(to - from) |-> script[from + i]]

instruction_new(script, ip) ==
  LET err == [ok |-> FALSE, panic |-> FALSE, opcode |-> 0, operand |-> <<>>]
  IN IF ip >= Len(script) THEN err
     ELSE LET op == script[ip + 1]
              prefix_size == operand_prefix(op)
          IN IF op \notin ValidOpcodes THEN [err EXCEPT !.panic = TRUE]
             ELSE IF prefix_size > 0
             THEN IF ip + 1 + prefix_size > Len(script) THEN err
                  ELSE LET n == from_le_bytes(Slice(script, ip + 1, ip + 1 + prefix_size))
                       IN IF ip + 1 + prefix_size + n > Len(script) THEN err
                          ELSE [ok |-> TRUE, panic |-> FALSE, opcode |-> op,
                                operand |-> Slice(script, ip + 1 + prefix_size,
                                                  ip + 1 + prefix_size + n)]
             ELSE IF ip + 1 + operand_size(op) > Len(script) THEN err
                  ELSE [ok |-> TRUE, panic |-> FALSE, opcode |-> op,
                        operand |-> Slice(script, ip + 1, ip + 1 + operand_size(op))]

\* u8 arithmetic, as written: the operand length is cast to u8 before the sum.
size(ins) ==
  IF operand_prefix(ins.opcode) > 0
  THEN (1 + operand_prefix(ins.opcode) + (Len(ins.operand) % 256)) % 256
  ELSE 1 + operand_size(ins.opcode)

\* The u8 sum 1 + prefix_size + len exceeds 255: a build with overflow checks
\* panics there, a build without them wraps (as size computes).
size_overflows(ins) ==
  /\ operand_prefix(ins.opcode) > 0
  /\ 1 + operand_prefix(ins.opcode) + (Len(ins.operand) % 256) > 255

as_i8(b) == IF b >= 128 THEN b - 256 ELSE b

token_i8(ins) == as_i8(ins.operand[1])

\* i32::from_le_bytes, kept within 32-bit arithmetic: a negative value is
\* minus one minus the value of the complemented bytes.
i32_from_le_bytes(bytes) ==
  LET value(b) == b[1] + 256 * b[2] + 65536 * b[3] + 16777216 * b[4]
  IN IF bytes[4] >= 128
     THEN (0 - value([i \in 1..4 |-> 255 - bytes[i]])) - 1
     ELSE value(bytes)

token_i32(ins) == i32_from_le_bytes(SubSeq(ins.operand, 1, 4))

token_i8_1(ins) == as_i8(ins.operand[2])

token_u8(ins) == ins.operand[1]

token_u8_1(ins) == ins.operand[2]

token_i32_1(ins) == i32_from_le_bytes(SubSeq(ins.operand, 5, 8))

(***************************************************************************)
(* Script (script.rs).  get_instruction answers from the cache, refuses    *)
(* in strict mode what is not cached, and otherwise decodes and caches.    *)
(* The result carries the script, whose cache the call may have grown.     *)
(***************************************************************************)
script_get_instruction(s, ip) ==
  LET err == [ok |-> FALSE, panic |-> FALSE, s |-> s, ip |-> ip]
  IN IF ip < 0 \/ ip >= Len(s.value) THEN err
     ELSE IF ip \in s.instructions THEN [err EXCEPT !.ok = TRUE]
     ELSE IF s.strict_mode THEN err
     ELSE LET decoded == instruction_new(s.value, ip)
          IN IF decoded.panic THEN [err EXCEPT !.panic = TRUE]
             ELSE IF ~decoded.ok THEN err
             ELSE [ok |-> TRUE, panic |-> FALSE,
                   s |-> [s EXCEPT !.instructions = @ \cup {ip}], ip |-> ip]

\* StackItemType::is_valid
is_valid(tp) == tp \in {0, 16, 32, 33, 40, 48, 64, 65, 72, 96}

\* The targets validate_script looks up for the instruction at ip, and the
\* test of its type operand.
validate_targets(ins, ip) ==
  CASE ins.opcode \in {34, 36, 38, 40, 42, 44, 46, 48, 50, CALL, ENDTRY} ->
         <<ip + token_i8(ins)>>
    [] ins.opcode \in {10, 35, 37, 39, 41, 43, 45, 47, 49, 51, CALL_L, 62} ->
         <<ip + token_i32(ins)>>
    [] ins.opcode = TRY -> <<ip + token_i8(ins), ip + token_i8_1(ins)>>
    [] ins.opcode = 60 -> <<ip + token_i32(ins), ip + token_i32_1(ins)>>
    [] OTHER -> <<>>

validate_type(ins) ==
  IF ins.opcode \in {196, 217, 219}
  THEN is_valid(token_u8(ins)) /\ (ins.opcode # 196 => token_u8(ins) # 0)
  ELSE TRUE

RECURSIVE lookup_all(_, _)
lookup_all(s, targets) ==
  IF targets = <<>> THEN [ok |-> TRUE, panic |-> FALSE, s |-> s, ip |-> 0]
  ELSE LET r == script_get_instruction(s, Head(targets))
       IN IF ~r.ok THEN r ELSE lookup_all(r.s, Tail(targets))

RECURSIVE validate_script_from(_, _)
validate_script_from(s, ip) ==
  IF ip >= Len(s.value) THEN [ok |-> TRUE, panic |-> FALSE, s |-> s, ip |-> ip]
  ELSE LET r == script_get_instruction(s, ip)
       IN IF ~r.ok THEN r
          ELSE LET instruction == instruction_new(s.value, ip)
                   looked == lookup_all(r.s, validate_targets(instruction, ip))
               IN IF ~looked.ok THEN looked
                  ELSE IF ~validate_type(instruction)
                  THEN [ok |-> FALSE, panic |-> FALSE, s |-> looked.s, ip |-> ip]
                  ELSE validate_script_from(looked.s, ip + size(instruction))

validate_script(s) == validate_script_from(s, 0)

\* Script::new_with_mode: in strict mode the result of validate_script is
\* unwrapped with expect, which panics on Err.
new_with_mode(script, strict_mode) ==
  LET s == [value |-> script, strict_mode |-> strict_mode, instructions |-> {},
            panicked |-> FALSE,
            last |-> [op |-> "new_with_mode", ip |-> 0, ok |-> TRUE]]
  IN IF strict_mode
     THEN LET v == validate_script(s)
          IN IF v.ok THEN v.s
             ELSE [v.s EXCEPT !.panicked = TRUE, !.last.ok = FALSE]
     ELSE s

(***************************************************************************)
(* EvaluationStack (evaluation_stack.rs).  Stack 0 is the engine's result  *)
(* stack; stack s > 0 is the evaluation stack of shared state s.  The top  *)
(* of a stack is the end of its inner_list.                                *)
(***************************************************************************)
inner_list(e, s) == IF s = 0 THEN e.result_stack ELSE e.shared[s].evaluation_stack

WithList(e, s, list) ==
  IF s = 0 THEN [e EXCEPT !.result_stack = list]
  ELSE [e EXCEPT !.shared[s].evaluation_stack = list]

stack_push(e, s, item) ==
  add_stack_reference(WithList(e, s, Append(inner_list(e, s), item)), item, 1)

stack_remove(e, s, index) ==
  LET list == inner_list(e, s)
  IN IF index >= Len(list) THEN [ok |-> FALSE, item |-> NoItem, e |-> e]
     ELSE LET k == Len(list) - index
              item == list[k]
              rest == [i \in 1..(Len(list) - 1) |-> IF i < k THEN list[i] ELSE list[i + 1]]
          IN [ok |-> TRUE, item |-> item,
              e |-> remove_stack_reference(WithList(e, s, rest), item)]

stack_pop(e, s) == stack_remove(e, s, 0)

stack_peek(e, s, index) ==
  LET list == inner_list(e, s)
  IN IF index >= Len(list) THEN [ok |-> FALSE, item |-> NoItem]
     ELSE [ok |-> TRUE, item |-> list[Len(list) - index]]

RECURSIVE copy_items(_, _, _)
copy_items(e, to, items) ==
  IF items = <<>> THEN e
  ELSE copy_items(stack_push(e, to, Head(items)), to, Tail(items))

\* copy_to(stack, None): every item, bottom first, each with a stack reference.
copy_to(e, from, to) == copy_items(e, to, inner_list(e, from))

\* copy_to(stack, Some(count)): the top count items, or all when there are
\* fewer (saturating_sub).
copy_to_count(e, from, to, n) ==
  LET list == inner_list(e, from)
      start == IF n > Len(list) THEN 0 ELSE Len(list) - n
  IN IF n = 0 THEN e
     ELSE copy_items(e, to, SubSeq(list, start + 1, Len(list)))

RECURSIVE move_items(_, _, _)
move_items(e, to, items) ==
  IF items = <<>> THEN e
  ELSE move_items(remove_stack_reference(stack_push(e, to, Head(items)), Head(items)),
                  to, Tail(items))

\* move_to(stack, Some(count)): the drained items leave this stack; each is
\* pushed on the other with a reference added and then one removed.
move_to(e, from, to, n) ==
  LET list == inner_list(e, from)
      start == IF n > Len(list) THEN 0 ELSE Len(list) - n
  IN IF n = 0 THEN e
     ELSE move_items(WithList(e, from, SubSeq(list, 1, start)), to,
                     SubSeq(list, start + 1, Len(list)))

RECURSIVE drain_all(_, _)
drain_all(e, items) ==
  IF items = <<>> THEN e
  ELSE drain_all(remove_stack_reference(e, Head(items)), Tail(items))

stack_clear_uncounted(e, s) == WithList(e, s, <<>>)

stack_clear(e, s) == drain_all(WithList(e, s, <<>>), inner_list(e, s))

\* Vec::insert at the same distance from the bottom.
stack_insert_from_bottom(e, s, index, item) ==
  LET list == inner_list(e, s)
  IN IF index > Len(list) THEN [ok |-> FALSE, e |-> e]
     ELSE [ok |-> TRUE,
           e |-> add_stack_reference(
                   WithList(e, s, SubSeq(list, 1, index) \o <<item>>
                                    \o SubSeq(list, index + 1, Len(list))),
                   item, 1)]

\* Vec::insert(count - index, item): count - index items stay below the new one.
stack_insert(e, s, index, item) ==
  LET list == inner_list(e, s)
      at == Len(list) - index
  IN IF index > Len(list) THEN [ok |-> FALSE, e |-> e]
     ELSE [ok |-> TRUE,
           e |-> add_stack_reference(
                   WithList(e, s, SubSeq(list, 1, at) \o <<item>>
                                    \o SubSeq(list, at + 1, Len(list))),
                   item, 1)]

stack_reverse(e, s, n) ==
  LET list == inner_list(e, s)
      start == Len(list) - n
  IN IF n > Len(list) THEN [ok |-> FALSE, e |-> e]
     ELSE IF n <= 1 THEN [ok |-> TRUE, e |-> e]
     ELSE [ok |-> TRUE,
           e |-> WithList(e, s, [i \in 1..Len(list) |->
                                   IF i <= start THEN list[i]
                                   ELSE list[start + (Len(list) - i) + 1]])]

(***************************************************************************)
(* Slot (slot.rs).                                                         *)
(***************************************************************************)
with_count(e, count) ==
  [items |-> [i \in 1..count |-> Null], e |-> add_stack_reference(e, Null, count)]

RECURSIVE add_each(_, _)
add_each(e, items) ==
  IF items = <<>> THEN e ELSE add_each(add_stack_reference(e, Head(items), 1), Tail(items))

slot_new(e, items) == [items |-> items, e |-> add_each(e, items)]

RECURSIVE clear_references(_, _)
clear_references(e, items) ==
  IF items = <<>> THEN e
  ELSE clear_references(remove_stack_reference(e, Head(items)), Tail(items))

(***************************************************************************)
(* ExecutionContext (execution_context.rs).  A context record holds the    *)
(* index of its SharedStates; CALL's clone shares that index.              *)
(***************************************************************************)
NewSharedStates(script) ==
  [script |-> script, evaluation_stack |-> <<>>, static_fields |-> <<>>]

NewContext(shared_states, rv_count) ==
  [shared_states |-> shared_states, rv_count |-> rv_count, instruction_pointer |-> 0,
   local_variables |-> <<>>, arguments |-> <<>>, try_stack |-> <<>>]

clone_with_ip(context, initial_position) ==
  [shared_states |-> context.shared_states, rv_count |-> 0,
   instruction_pointer |-> initial_position,
   local_variables |-> <<>>, arguments |-> <<>>, try_stack |-> <<>>]

script_of(e, c) == e.shared[e.contexts[c].shared_states].script

evaluation_stack(e, c) == e.contexts[c].shared_states

\* An instruction pointer is a usize: a negative position cast to usize is
\* beyond every script.
get_instruction(e, c, ip) ==
  IF ip < 0 \/ ip >= Len(script_of(e, c))
  THEN [ok |-> FALSE, panic |-> FALSE, opcode |-> 0, operand |-> <<>>]
  ELSE instruction_new(script_of(e, c), ip)

current_instruction(e, c) == get_instruction(e, c, e.contexts[c].instruction_pointer)

move_next(e, c) ==
  LET current == current_instruction(e, c)
  IN IF current.panic THEN [e EXCEPT !.panicked = TRUE]
     ELSE IF current.ok
          THEN [e EXCEPT !.contexts[c].instruction_pointer = @ + size(current)]
          ELSE e

\* move_next under either build: the wrapped sum, or the overflow panic.
move_next_outcomes(e, c) ==
  LET current == current_instruction(e, c)
  IN {move_next(e, c)}
       \cup (IF current.ok /\ ~current.panic /\ size_overflows(current)
             THEN {[e EXCEPT !.panicked = TRUE]} ELSE {})

(***************************************************************************)
(* ExecutionEngine (execution_engine.rs).                                  *)
(***************************************************************************)
new_with_limits(program, rv_count) ==
  [state |-> "Break", is_jumping |-> FALSE, invocation_stack |-> <<>>,
   current_context |-> 0, entry_context |-> 0, result_stack |-> <<>>,
   uncaught_exception |-> NoItem,
   contexts |-> <<>>, shared |-> <<>>, objs |-> <<>>, rc |-> NewCounter,
   panicked |-> FALSE, in_execute |-> FALSE, returned |-> "Nothing",
   last_call |-> [op |-> "new", from |-> "Break"], nsteps |-> 0,
   program |-> program, rv_count |-> rv_count, hist |-> <<>>]

Last(s) == s[Len(s)]

Front(s) == SubSeq(s, 1, Len(s) - 1)

create_context(e, script, rv_count, initial_position) ==
  IF rv_count < -1 \/ rv_count > 65535 \/ initial_position > Len(script)
  THEN [ok |-> FALSE, e |-> e, context |-> 0]
  ELSE LET e1 == [e EXCEPT !.shared = Append(@, NewSharedStates(script))]
           context == [NewContext(Len(e1.shared), rv_count)
                         EXCEPT !.instruction_pointer = initial_position]
       IN [ok |-> TRUE, e |-> [e1 EXCEPT !.contexts = Append(@, context)],
           context |-> Len(e.contexts) + 1]

load_context_unguarded(e, context) ==
  [ok |-> TRUE,
   e |-> [e EXCEPT !.invocation_stack = Append(@, context),
                   !.entry_context = IF @ = 0 THEN context ELSE @,
                   !.current_context = context]]

load_context(e, context) ==
  IF Len(e.invocation_stack) >= MaxInvocationStackSize
  THEN [ok |-> FALSE, e |-> e]
  ELSE [ok |-> TRUE,
        e |-> [e EXCEPT !.invocation_stack = Append(@, context),
                        !.entry_context = IF @ = 0 THEN context ELSE @,
                        !.current_context = context]]

\* A context that fails to load is dropped with its Rc: the engine is unchanged.
load_script(e, script, rv_count, initial_position) ==
  LET created == create_context(e, script, rv_count, initial_position)
  IN IF ~created.ok THEN [ok |-> FALSE, e |-> e]
     ELSE LET loaded == load_context(created.e, created.context)
          IN IF loaded.ok THEN loaded ELSE [ok |-> FALSE, e |-> e]

unload_context(e, context) ==
  IF e.invocation_stack # <<>> /\ Last(e.invocation_stack) # context THEN e
  ELSE LET stack == IF e.invocation_stack = <<>> THEN <<>> ELSE Front(e.invocation_stack)
           e1 == [e EXCEPT !.invocation_stack = stack,
                           !.current_context = IF stack = <<>> THEN 0 ELSE Last(stack),
                           !.entry_context = IF stack = <<>> THEN 0 ELSE @]
           ctx == e.contexts[context]
           static_fields == e.shared[ctx.shared_states].static_fields
           e2 == IF static_fields # <<>>
                    /\ (e1.current_context = 0
                        \/ e.contexts[e1.current_context].shared_states # ctx.shared_states)
                 THEN clear_references(e1, static_fields)
                 ELSE e1
       IN clear_references(clear_references(e2, ctx.local_variables), ctx.arguments)

on_fault(e) == [e EXCEPT !.state = "Fault"]

\* engine.peek / engine.pop / engine.push: the current context's evaluation stack.
\* engine.pop is written to return evaluation_stack() itself where a
\* Result<item> is declared; it is read as that stack's pop().
peek(e, index) ==
  IF e.current_context = 0 THEN [ok |-> FALSE, item |-> NoItem]
  ELSE stack_peek(e, evaluation_stack(e, e.current_context), index)

pop(e) ==
  IF e.current_context = 0 THEN [ok |-> FALSE, item |-> NoItem, e |-> e]
  ELSE stack_pop(e, evaluation_stack(e, e.current_context))

push(e, item) ==
  IF e.current_context = 0 THEN e
  ELSE stack_push(e, evaluation_stack(e, e.current_context), item)

(***************************************************************************)
(* ReferenceCounter::count and ::check_zero_referred are called by the     *)
(* engine but their bodies are not in the sources; they are written from   *)
(* the specification: a tracked compound that no stack-referenced compound *)
(* reaches through parent-to-child references is freed, the references it  *)
(* held on its children are released, and the live count is returned.      *)
(***************************************************************************)
count(e) == e.rc.references_count

Successors(e, S) ==
  {c \in e.rc.tracked_items :
     \E p \in S : p \in DOMAIN e.objs[c].object_references
                  /\ e.objs[c].object_references[p] > 0}

RECURSIVE Reach(_, _)
Reach(e, S) ==
  LET T == S \cup Successors(e, S) IN IF T = S THEN S ELSE Reach(e, T)

ChildCount(obj) == Len(obj.items) + 2 * Cardinality(DOMAIN obj.dict)

check_zero_referred(e) ==
  IF e.rc.zero_referred = {} THEN e
  ELSE LET roots == {i \in e.rc.tracked_items : e.objs[i].stack_references > 0}
           freed == e.rc.tracked_items \ Reach(e, roots)
           released == SumFun([p \in freed |-> ChildCount(e.objs[p])])
       IN [e EXCEPT
             !.rc.references_count = @ - released,
             !.rc.tracked_items = @ \ freed,
             !.rc.zero_referred = {},
             !.objs = [i \in DOMAIN e.objs |->
                         IF i \in freed
                         THEN [e.objs[i] EXCEPT !.items = <<>>, !.dict = <<>>,
                                                !.object_references = <<>>]
                         ELSE [e.objs[i] EXCEPT !.object_references =
                                 [p \in DOMAIN @ \ freed |-> @[p]]]]]

post_execute_instruction_unchecked(e) == [ok |-> TRUE, e |-> e]

post_execute_instruction(e) ==
  IF count(e) < MaxStackSize THEN [ok |-> TRUE, e |-> e]
  ELSE LET e1 == check_zero_referred(e)
       IN IF count(e1) > MaxStackSize THEN [ok |-> FALSE, e |-> e1]
          ELSE [ok |-> TRUE, e |-> e1]

(***************************************************************************)
(* Handlers of the jump table: constants, stack, arithmetic, compounds,    *)
(* slots (push.rs, stack.rs, numeric.rs, compound.rs, slot.rs).            *)
(***************************************************************************)
Panic(e) == [e EXCEPT !.panicked = TRUE]

\* PUSHM1, PUSH0 .. PUSH16: the opcode's distance from PUSH0 is the number.
push_n(e, ins) == push(e, Integer(ins.opcode - PUSH0))

nop(e, ins) == e

drop(e, ins) == pop(e).e

dup(e, ins) ==
  LET item == peek(e, 0)
  IN IF ~item.ok THEN Panic(e) ELSE push(e, item.item)

\* StackItem::get_boolean, get_span and get_integer (stack_item.rs).  An Err
\* of get_integer carries its message: 1 is "ByteString or Buffer too long
\* for integer conversion", 2 is "Cannot convert to integer".
get_boolean(item) ==
  CASE item.t = "Boolean" -> item.b
    [] item.t = "Integer" -> item.n.mag # <<>>
    [] item.t \in {"ByteString", "Buffer"} -> item.bytes # <<>>
    [] item.t = "Null" -> FALSE
    [] OTHER -> TRUE

get_span(item) ==
  CASE item.t = "Boolean" -> <<IF item.b THEN 1 ELSE 0>>
    [] item.t = "Integer" -> to_signed_bytes_le(item.n)
    [] item.t \in {"ByteString", "Buffer"} -> item.bytes
    [] OTHER -> <<>>

get_integer(item) ==
  CASE item.t = "Boolean" ->
         [ok |-> TRUE, v |-> BigInt_from(IF item.b THEN 1 ELSE 0), err |-> 0]
    [] item.t = "Integer" -> [ok |-> TRUE, v |-> item.n, err |-> 0]
    [] item.t \in {"ByteString", "Buffer"} ->
         IF Len(item.bytes) > 8 THEN [ok |-> FALSE, v |-> BigInt_from(0), err |-> 1]
         ELSE [ok |-> TRUE, v |-> from_signed_bytes_le(item.bytes), err |-> 0]
    [] OTHER -> [ok |-> FALSE, v |-> BigInt_from(0), err |-> 2]

\* err 3 is "Invalid conversion"; an Integer conversion passes on
\* get_integer's error.
convert_to(item, item_type) ==
  IF item.t = item_type THEN [ok |-> TRUE, item |-> item, err |-> 0]
  ELSE CASE item_type = "Boolean" ->
              [ok |-> TRUE, item |-> Boolean(get_boolean(item)), err |-> 0]
         [] item_type = "Integer" ->
              LET r == get_integer(item)
              IN IF r.ok THEN [ok |-> TRUE, item |-> BigInteger(r.v), err |-> 0]
                 ELSE [ok |-> FALSE, item |-> NoItem, err |-> r.err]
         [] item_type = "ByteString" ->
              [ok |-> TRUE, item |-> ByteString(get_span(item)), err |-> 0]
         [] item_type = "Buffer" ->
              [ok |-> TRUE, item |-> Buffer(0, get_span(item)), err |-> 0]
         [] OTHER -> [ok |-> FALSE, item |-> NoItem, err |-> 3]

add(e, ins) ==
  LET p2 == pop(e)
      p1 == pop(p2.e)
      x2 == get_integer(p2.item)
      x1 == get_integer(p1.item)
  IN IF ~p2.ok \/ ~x2.ok \/ ~p1.ok \/ ~x1.ok THEN Panic(e)
     ELSE push(p1.e, Integer(to_i(x1.v) + to_i(x2.v)))

\* BigInt's / and % truncate toward zero; the remainder has the dividend's sign.
quotient(a, b) ==
  LET abs_a == IF a < 0 THEN 0 - a ELSE a
      abs_b == IF b < 0 THEN 0 - b ELSE b
  IN IF (a < 0) = (b < 0) THEN abs_a \div abs_b ELSE 0 - (abs_a \div abs_b)

remainder(a, b) == a - b * quotient(a, b)

div_unchecked(e, ins) ==
  LET p2 == pop(e)
      p1 == pop(p2.e)
      x2 == get_integer(p2.item)
      x1 == get_integer(p1.item)
  IN IF ~p2.ok \/ ~x2.ok \/ ~p1.ok \/ ~x1.ok THEN Panic(e)
     ELSE IF to_i(x2.v) = 0 THEN push(p1.e, Integer(0))
     ELSE push(p1.e, Integer(quotient(to_i(x1.v), to_i(x2.v))))

div(e, ins) ==
  LET p2 == pop(e)
      p1 == pop(p2.e)
      x2 == get_integer(p2.item)
      x1 == get_integer(p1.item)
  IN IF ~p2.ok \/ ~x2.ok \/ ~p1.ok \/ ~x1.ok THEN Panic(e)
     ELSE IF to_i(x2.v) = 0 THEN [p1.e EXCEPT !.state = "Fault"]
     ELSE push(p1.e, Integer(quotient(to_i(x1.v), to_i(x2.v))))

mod_op(e, ins) ==
  LET p2 == pop(e)
      p1 == pop(p2.e)
      x2 == get_integer(p2.item)
      x1 == get_integer(p1.item)
  IN IF ~p2.ok \/ ~x2.ok \/ ~p1.ok \/ ~x1.ok THEN Panic(e)
     ELSE IF to_i(x2.v) = 0 THEN [p1.e EXCEPT !.state = "Fault"]
     ELSE push(p1.e, Integer(remainder(to_i(x1.v), to_i(x2.v))))

\* Result's derived order, on which lt compares: Ok(a) < Ok(b) iff a < b, every
\* Ok is below every Err, and two Errs compare by their messages.
result_lt(r1, r2) ==
  IF r1.ok /\ r2.ok THEN to_i(r1.v) < to_i(r2.v)
  ELSE IF r1.ok THEN ~r2.ok
  ELSE IF r2.ok THEN FALSE
  ELSE r1.err < r2.err

lt(e, ins) ==
  LET p2 == pop(e)
      p1 == pop(p2.e)
  IN IF ~p2.ok \/ ~p1.ok THEN Panic(e)
     ELSE IF p1.item.t = "Null" \/ p2.item.t = "Null" THEN push(p1.e, Boolean(FALSE))
     ELSE push(p1.e, Boolean(result_lt(get_integer(p1.item), get_integer(p2.item))))

NewCompound(e, type) ==
  [e |-> [e EXCEPT !.objs = Append(@, NewObject(type))],
   item |-> Compound(type, Len(e.objs) + 1)]

new_array0(e, ins) ==
  LET created == NewCompound(e, "Array") IN push(created.e, created.item)

new_map(e, ins) ==
  LET created == NewCompound(e, "Map") IN push(created.e, created.item)

abort(e, ins) == [e EXCEPT !.state = "Fault"]

assert_op(e, ins) ==
  LET p == pop(e)
  IN IF ~p.ok THEN Panic(e)
     ELSE IF ~get_boolean(p.item) THEN [p.e EXCEPT !.state = "Fault"]
     ELSE p.e

push_int8(e, ins) == push(e, Integer(token_i8(ins)))

\* ExecutionEngineLimits::assert_max_item_size is called by the handlers but
\* its body is not in the sources; it is written from the specification: a
\* size above MAX_ITEM_SIZE is an Err.
assert_max_item_size(length) == length <= MaxItemSize

push_data(e, data) ==
  IF ~assert_max_item_size(Len(data)) THEN [e EXCEPT !.state = "Fault"]
  ELSE IF Len(data) <= 1024 THEN push(e, ByteString(data))
  ELSE LET created == NewCompound(e, "Buffer")
       IN push(created.e, Buffer(created.item.v, data))

push_data1(e, ins) == push_data(e, ins.operand)

\* Vec::with_capacity(size) is an empty vector: the new buffer has no bytes.
\* The value of assert_max_item_size is dropped.  to_usize().unwrap() panics
\* on a negative size.
new_buffer(e, ins) ==
  LET p == pop(e)
      length == get_integer(p.item)
      created == NewCompound(p.e, "Buffer")
  IN IF ~p.ok THEN Panic(e)
     ELSE IF ~length.ok THEN [p.e EXCEPT !.state = "Fault"]
     ELSE IF length.v.neg THEN Panic(e)
     ELSE push(created.e, Buffer(created.item.v, <<>>))

\* StackItem::get_buffer_or_byte_string is not in the sources; by its name
\* it gives the bytes of a ByteString or a Buffer and is an Err on the rest.
get_buffer_or_byte_string(item) ==
  IF item.t \in {"ByteString", "Buffer"} THEN [ok |-> TRUE, bytes |-> item.bytes]
  ELSE [ok |-> FALSE, bytes |-> <<>>]

\* The value of assert_max_item_size is dropped here too.
cat(e, ins) ==
  LET pb == pop(e)
      b == get_buffer_or_byte_string(pb.item)
      pa == pop(pb.e)
      a == get_buffer_or_byte_string(pa.item)
  IN IF ~pb.ok THEN Panic(e)
     ELSE IF ~b.ok THEN [pb.e EXCEPT !.state = "Fault"]
     ELSE IF ~pa.ok THEN Panic(e)
     ELSE IF ~a.ok THEN [pa.e EXCEPT !.state = "Fault"]
     ELSE push(pa.e, ByteString(a.bytes \o b.bytes))

RECURSIVE pop_args(_, _, _)
pop_args(e, n, args) ==
  IF n = 0 THEN [ok |-> TRUE, e |-> e, args |-> args]
  ELSE LET p == pop(e)
       IN IF ~p.ok THEN [ok |-> FALSE, e |-> e, args |-> args]
          ELSE pop_args(p.e, n - 1, <<p.item>> \o args)

\* args.push(pop) then args.reverse(): the first item popped ends up last.
init_slot(e, ins) ==
  LET local_count == token_u8(ins)
      arg_count == token_u8_1(ins)
      c == e.current_context
  IN IF local_count + arg_count = 0 THEN e
     ELSE IF e.contexts[c].local_variables # <<>> \/ e.contexts[c].arguments # <<>>
     THEN [e EXCEPT !.state = "Fault"]
     ELSE LET locals == with_count(e, local_count)
              e1 == IF local_count > 0
                    THEN [locals.e EXCEPT !.contexts[c].local_variables = locals.items]
                    ELSE e
              popped == pop_args(e1, arg_count, <<>>)
              args == slot_new(popped.e, popped.args)
          IN IF arg_count = 0 THEN e1
             ELSE IF ~popped.ok THEN Panic(e1)
             ELSE [args.e EXCEPT !.contexts[c].arguments = args.items]

(***************************************************************************)
(* Control flow and the exception machine (control.rs).                    *)
(***************************************************************************)
\* ExceptionHandlingContext::new: a handler starts in state Try with no end
\* pointer; -1 is Option::None.  `id` is the step that executed the TRY, kept
\* only to tell handlers apart when their history is observed.
NewExceptionHandlingContext(catch_pointer, finally_pointer, id) ==
  [catch_pointer |-> catch_pointer, finally_pointer |-> finally_pointer,
   end_pointer |-> -1, state |-> "Try", id |-> id]

\* usize + (i32 as usize): a negative offset wraps to 2^64 - k, and the sum
\* overflows exactly when it would land at or above zero.  A negative result
\* stands for its wrapped value 2^64 + v, which lies beyond every script.
checked_add(ip, offset) ==
  IF offset >= 0 THEN [ok |-> TRUE, v |-> ip + offset]
  ELSE IF ip + offset >= 0 THEN [ok |-> FALSE, v |-> 0]
  ELSE [ok |-> TRUE, v |-> ip + offset]

execute_jump(e, position) ==
  LET c == e.current_context
  IN IF position < 0 \/ position >= Len(script_of(e, c)) THEN e
     ELSE [e EXCEPT !.contexts[c].instruction_pointer = position,
                    !.is_jumping = TRUE]

execute_jump_offset(e, offset) ==
  execute_jump(e, e.contexts[e.current_context].instruction_pointer + offset)

jmp(e, ins) == execute_jump_offset(e, token_i8(ins))

jmp_if_not_taken(e, ins) ==
  LET p == pop(e) IN IF ~p.ok THEN Panic(e) ELSE p.e

jmp_if(e, ins) ==
  LET p == pop(e)
  IN IF ~p.ok THEN Panic(e)
     ELSE IF get_boolean(p.item) THEN execute_jump_offset(p.e, token_i8(ins))
     ELSE p.e

\* clone_at_offset is clone_with_ip: the callee shares the caller's shared
\* states.  load_context's Err is dropped.
execute_call(e, position) ==
  LET callee == clone_with_ip(e.contexts[e.current_context], position)
      e1 == [e EXCEPT !.contexts = Append(@, callee)]
      loaded == load_context(e1, Len(e1.contexts))
  IN IF loaded.ok THEN loaded.e ELSE e

call(e, ins) ==
  execute_call(e, e.contexts[e.current_context].instruction_pointer + token_i8(ins))

execute_try(e, catch_offset, finally_offset) ==
  LET c == e.current_context
      ctx == e.contexts[c]
  IN IF catch_offset = 0 /\ finally_offset = 0 THEN e
     ELSE IF ctx.try_stack # <<>> /\ Len(ctx.try_stack) >= MaxTryNestingDepth THEN e
     ELSE LET catch_pointer == IF catch_offset > 0
                               THEN ctx.instruction_pointer + catch_offset ELSE -1
              finally_pointer == IF finally_offset > 0
                                 THEN ctx.instruction_pointer + finally_offset ELSE -1
          IN [e EXCEPT !.contexts[c].try_stack =
                Append(@, NewExceptionHandlingContext(catch_pointer, finally_pointer,
                                                      e.nsteps))]

try_op(e, ins) == execute_try(e, token_i8(ins), token_i8_1(ins))

execute_end_try(e, end_offset) ==
  LET c == e.current_context
      ctx == e.contexts[c]
      n == Len(ctx.try_stack)
      end_pointer == checked_add(ctx.instruction_pointer, end_offset)
  IN IF ctx.try_stack = <<>> THEN e
     ELSE IF ctx.try_stack[n].state = "Finally" THEN e
     ELSE IF ~end_pointer.ok THEN [e EXCEPT !.state = "Fault"]
     ELSE IF ctx.try_stack[n].finally_pointer # -1
     THEN [e EXCEPT !.contexts[c].try_stack[n].state = "Finally",
                    !.contexts[c].try_stack[n].end_pointer = end_pointer.v,
                    !.contexts[c].instruction_pointer = ctx.try_stack[n].finally_pointer,
                    !.is_jumping = TRUE]
     ELSE [e EXCEPT !.contexts[c].try_stack = Front(@),
                    !.contexts[c].instruction_pointer = end_pointer.v,
                    !.is_jumping = TRUE]

end_try(e, ins) == execute_end_try(e, token_i8(ins))

\* for _ in 0..pop { unload_context(invocation_stack.pop().unwrap()) }
RECURSIVE unload_popped(_, _)
unload_popped(e, pop_count) ==
  IF pop_count = 0 THEN e
  ELSE IF e.invocation_stack = <<>> THEN Panic(e)
  ELSE unload_popped(
         unload_context([e EXCEPT !.invocation_stack = Front(@)], Last(e.invocation_stack)),
         pop_count - 1)

\* The handler found at position i of the invocation stack claims the exception.
claim_exception(e, i, pop_count) ==
  LET c == e.invocation_stack[i]
      n == Len(e.contexts[c].try_stack)
      try_context == e.contexts[c].try_stack[n]
      e1 == unload_popped(e, pop_count)
  IN IF e1.panicked THEN e1
     ELSE IF try_context.state = "Try" /\ try_context.catch_pointer # -1
     THEN LET e2 == push([e1 EXCEPT !.contexts[c].try_stack[n].state = "Catch"],
                         e1.uncaught_exception)
          IN [e2 EXCEPT !.contexts[c].instruction_pointer = try_context.catch_pointer,
                        !.uncaught_exception = NoItem,
                        !.is_jumping = TRUE]
     ELSE IF try_context.finally_pointer = -1 THEN Panic(e1)
     ELSE [e1 EXCEPT !.contexts[c].try_stack[n].state = "Finally",
                     !.contexts[c].instruction_pointer = try_context.finally_pointer,
                     !.is_jumping = TRUE]

\* The walk of execute_throw: i runs from the top of the invocation stack down.
RECURSIVE throw_walk(_, _, _)
throw_walk(e, i, pop_count) ==
  IF i = 0 THEN [e EXCEPT !.state = "Fault"]
  ELSE LET c == e.invocation_stack[i]
           try_stack == e.contexts[c].try_stack
       IN IF try_stack = <<>> THEN throw_walk(e, i - 1, pop_count + 1)
          ELSE LET try_context == Last(try_stack)
               IN IF try_context.state = "Finally"
                     \/ (try_context.state = "Catch" /\ try_context.finally_pointer = -1)
                  THEN throw_walk([e EXCEPT !.contexts[c].try_stack = Front(@)],
                                  i, pop_count)
                  ELSE claim_exception(e, i, pop_count)

execute_throw_unrecorded(e, exception) ==
  throw_walk(e, Len(e.invocation_stack), 0)

execute_throw(e, exception) ==
  throw_walk([e EXCEPT !.uncaught_exception = exception], Len(e.invocation_stack), 0)

throw(e, ins) ==
  LET p == pop(e) IN IF ~p.ok THEN Panic(e) ELSE execute_throw(p.e, p.item)

end_finally(e, ins) ==
  LET c == e.current_context
      try_stack == e.contexts[c].try_stack
  IN IF try_stack = <<>> THEN [e EXCEPT !.state = "Fault"]
     ELSE LET current_try == Last(try_stack)
              e1 == [e EXCEPT !.contexts[c].try_stack = Front(@)]
          IN IF current_try.state = "Finally" THEN [e1 EXCEPT !.state = "Fault"]
             ELSE IF e1.uncaught_exception = NoItem
             THEN [e1 EXCEPT !.contexts[c].instruction_pointer = current_try.end_pointer,
                             !.is_jumping = TRUE]
             ELSE LET thrown == execute_throw([e1 EXCEPT !.uncaught_exception = NoItem],
                                              e1.uncaught_exception)
                  IN [thrown EXCEPT !.is_jumping = TRUE]

\* The two stacks are compared by identity (they are Rc pointers).
ret(e, ins) ==
  IF e.invocation_stack = <<>> THEN Panic(e)
  ELSE LET context_pop == Last(e.invocation_stack)
           e1 == [e EXCEPT !.invocation_stack = Front(@)]
           stack_eval == IF e1.invocation_stack = <<>> THEN 0
                         ELSE evaluation_stack(e1, Last(e1.invocation_stack))
           from == evaluation_stack(e1, context_pop)
           rv_count == e1.contexts[context_pop].rv_count
           mismatch == from # stack_eval /\ rv_count >= 0
                       /\ Len(inner_list(e1, from)) # rv_count
           e2 == IF from # stack_eval THEN copy_to(e1, from, stack_eval) ELSE e1
           e3 == IF e2.invocation_stack = <<>> THEN [e2 EXCEPT !.state = "Halt"] ELSE e2
       IN IF mismatch THEN e1
          ELSE [unload_context(e3, context_pop) EXCEPT !.is_jumping = TRUE]

(***************************************************************************)
(* Map (vm_map.rs, stack_item.rs): the dictionary is a std HashMap, whose  *)
(* iteration order is unspecified and differs between instances; keys()    *)
(* collects into_keys(), so any enumeration of the key set can come out.   *)
(***************************************************************************)
RECURSIVE Enumerations(_)
Enumerations(S) ==
  IF S = {} THEN {<<>>}
  ELSE UNION {{<<x>> \o rest : rest \in Enumerations(S \ {x})} : x \in S}

keys(dict) == Enumerations(DOMAIN dict)

(***************************************************************************)
(* SETITEM and KEYS are registered in the jump table (mod.rs) but the      *)
(* bodies of set_item and keys are not in the sources; they are written    *)
(* from the specification: SETITEM pops value, key and container and       *)
(* stores; KEYS pops a Map and pushes a new Array of its keys.             *)
(***************************************************************************)
RECURSIVE add_children(_, _, _)
add_children(e, items, parent) ==
  IF items = <<>> THEN e
  ELSE add_children(add_reference(e, Head(items), parent), Tail(items), parent)

set_item(e, ins) ==
  LET pv == pop(e)
      pk == pop(pv.e)
      px == pop(pk.e)
      x == px.item
      key == pk.item
      dict == px.e.objs[x.v].dict
  IN IF ~pv.ok \/ ~pk.ok \/ ~px.ok \/ x.t # "Map" \/ need_track(key)
     THEN [e EXCEPT !.state = "Fault"]
     ELSE LET e1 == IF key \in DOMAIN dict
                    THEN remove_reference(px.e, dict[key], x)
                    ELSE add_reference(px.e, key, x)
              e2 == add_reference(e1, pv.item, x)
          IN [e2 EXCEPT !.objs[x.v].dict =
                [k \in DOMAIN dict \cup {key} |-> IF k = key THEN pv.item ELSE dict[k]]]

keys_op(e, ins) ==
  LET px == pop(e)
      x == px.item
  IN IF ~px.ok \/ x.t # "Map" THEN {[e EXCEPT !.state = "Fault"]}
     ELSE {LET created == NewCompound(px.e, "Array")
               filled == [created.e EXCEPT !.objs[created.item.v].items = order]
           IN push(add_children(filled, order, created.item), created.item)
             : order \in keys(px.e.objs[x.v].dict)}

(***************************************************************************)
(* JumpTable::execute (mod.rs): an opcode with no entry in the table makes *)
(* execute evaluate to Err(VMState::Fault), a value its caller drops.      *)
(* INITSSLOT and UNPACK have no entry.  The result is the set of engines   *)
(* the handler can leave behind.                                           *)
(***************************************************************************)
ModelledOpcodes ==
  (PUSHM1..PUSH16) \cup {NOP, JMP, CALL, ABORT, THROW, TRY, ENDTRY, ENDFINALLY, RET,
                         DROP, DUP, INITSSLOT, INITSLOT, ADD, NEWARRAY0, NEWMAP,
                         KEYS, SETITEM, UNPACK, PUSHINT8, PUSHDATA1, JMPIF, ASSERT,
                         NEWBUFFER, CAT, DIV, MOD, LT}

jump_table_execute(e, ins) ==
  LET op == ins.opcode
  IN CASE op \in PUSHM1..PUSH16 -> {push_n(e, ins)}
       [] op = NOP -> {nop(e, ins)}
       [] op = JMP -> {jmp(e, ins)}
       [] op = CALL -> {call(e, ins)}
       [] op = ABORT -> {abort(e, ins)}
       [] op = THROW -> {throw(e, ins)}
       [] op = TRY -> {try_op(e, ins)}
       [] op = ENDTRY -> {end_try(e, ins)}
       [] op = ENDFINALLY -> {end_finally(e, ins)}
       [] op = RET -> {ret(e, ins)}
       [] op = DROP -> {drop(e, ins)}
       [] op = DUP -> {dup(e, ins)}
       [] op = INITSLOT -> {init_slot(e, ins)}
       [] op = ADD -> {add(e, ins)}
       [] op = NEWARRAY0 -> {new_array0(e, ins)}
       [] op = NEWMAP -> {new_map(e, ins)}
       [] op = KEYS -> keys_op(e, ins)
       [] op = SETITEM -> {set_item(e, ins)}
       [] op = PUSHINT8 -> {push_int8(e, ins)}
       [] op = PUSHDATA1 -> {push_data1(e, ins)}
       [] op = JMPIF -> {jmp_if(e, ins)}
       [] op = ASSERT -> {assert_op(e, ins)}
       [] op = NEWBUFFER -> {new_buffer(e, ins)}
       [] op = CAT -> {cat(e, ins)}
       [] op = DIV -> {div(e, ins)}
       [] op = MOD -> {mod_op(e, ins)}
       [] op = LT -> {lt(e, ins)}
       [] OTHER -> {e}

\* What execute_instruction does once the handler has returned.  A panic in
\* the handler ends the process on the spot.
after_dispatch(x, context) ==
  IF x.panicked THEN {[ok |-> TRUE, e |-> x]}
  ELSE LET post == post_execute_instruction(x)
       IN IF ~post.ok THEN {[ok |-> FALSE, e |-> post.e]}
          ELSE {[ok |-> TRUE, e |-> [moved EXCEPT !.is_jumping = FALSE]] :
                  moved \in (IF ~post.e.is_jumping
                             THEN move_next_outcomes(post.e, context)
                             ELSE {post.e})}

execute_instruction(e) ==
  IF e.current_context = 0 THEN {[ok |-> FALSE, e |-> e]}
  ELSE LET context == e.current_context
           instruction == current_instruction(e, context)
       IN IF instruction.panic THEN {[ok |-> TRUE, e |-> Panic(e)]}
          ELSE IF ~instruction.ok THEN {[ok |-> FALSE, e |-> e]}
          ELSE UNION {after_dispatch(x, context) : x \in jump_table_execute(e, instruction)}

execute_next(e) ==
  IF e.invocation_stack = <<>> THEN {[e EXCEPT !.state = "Halt"]}
  ELSE {IF r.ok THEN r.e ELSE on_fault(r.e) : r \in execute_instruction(e)}

RunningUnlessHalt(e) == e.state # "Halt"

\* The test of execute's while loop.
Running(e) == e.state # "Halt" /\ e.state # "Fault"

(***************************************************************************)
(* History of the TRY handlers that were given a finally block: which      *)
(* context executed the TRY and how often its finally block was entered.   *)
(* It is observed from the engine before and after a step and read by no   *)
(* operation.                                                              *)
(***************************************************************************)
HandlerState(e, t) ==
  LET try_stack == e.contexts[t.ctx].try_stack
  IN IF \E k \in DOMAIN try_stack : try_stack[k].id = t.id
     THEN try_stack[CHOOSE k \in DOMAIN try_stack : try_stack[k].id = t.id].state
     ELSE "Gone"

Pushed(pre, post, c) ==
  \E k \in DOMAIN post.contexts[c].try_stack :
     /\ post.contexts[c].try_stack[k].id = pre.nsteps
     /\ post.contexts[c].try_stack[k].finally_pointer # -1
     /\ (c \in DOMAIN pre.contexts =>
           \A j \in DOMAIN pre.contexts[c].try_stack :
              pre.contexts[c].try_stack[j].id # pre.nsteps)

Observe(pre, post) ==
  LET ran == [i \in DOMAIN pre.hist |->
                IF HandlerState(post, pre.hist[i]) = "Finally"
                   /\ HandlerState(pre, pre.hist[i]) # "Finally"
                THEN [pre.hist[i] EXCEPT !.runs = @ + 1]
                ELSE pre.hist[i]]
  IN IF \E c \in DOMAIN post.contexts : Pushed(pre, post, c)
     THEN Append(ran, [id |-> pre.nsteps,
                       ctx |-> CHOOSE c \in DOMAIN post.contexts : Pushed(pre, post, c),
                       runs |-> 0])
     ELSE ran

Stepped(pre, post) ==
  [post EXCEPT !.nsteps = pre.nsteps + 1, !.hist = Observe(pre, post)]

(***************************************************************************)
(* The scripts the host loads.                                             *)
(***************************************************************************)
Scripts ==
  { <<PUSH0, 17, ADD, RET>>,                              \* S1
    <<17, 17, 17, 17, RET>>,                              \* four items returned
    <<CALL, 3, RET, 17, RET>>,                            \* a call and its return
    <<TRY, 0, 6, 17, ENDTRY, 4, ENDFINALLY, NOP, RET>>,   \* try-finally ended by ENDTRY
    <<TRY, 6, 9, 17, THROW, NOP, DROP, ENDTRY, 3, ENDFINALLY, RET>>, \* own catch, finally
    <<TRY, 0, 4, RET, ENDFINALLY>>,                       \* RET inside a try body
    <<TRY, 6, 0, CALL, 6, RET, DROP, RET, NOP, 17, THROW>>,           \* callee throws
    <<TRY, 6, 0, CALL, 6, RET, DROP, RET, NOP, INITSLOT, 1, 0, 17, THROW>>,
    <<TRY, 0, 5, 17, THROW, ENDFINALLY, RET>>,            \* finally-only handler
    <<NEWMAP, DUP, 17, 18, SETITEM, DUP, 18, 17, SETITEM, KEYS, RET>>, \* two-key map
    <<ABORT, RET>>,
    <<17, INITSLOT, 1, 1, RET>>,
    <<NEWARRAY0, DROP, NEWARRAY0, RET>>,
    <<INITSSLOT, UNPACK, RET>>,                           \* opcodes without a handler
    <<JMP, 3, ABORT, RET>>,
    <<17, 255>>,                                          \* a byte that is no opcode
    <<DUP>>,                                              \* DUP on an empty stack
    <<17, THROW>>,                                        \* nobody catches
    <<CALL, 0>>,                                          \* calls itself for ever
    <<PUSHM1>>,                                           \* runs off the end
    <<17, PUSH0, DIV, RET>>,                              \* S2
    <<18, 19, LT, JMPIF, 3, PUSH0, RET, 17, RET>>,        \* S3
    <<PUSHINT8, 254, ADD, RET>>,                          \* S6
    <<DROP, RET>>,                                        \* DROP on an empty stack
    <<TRY, 4, 5, ABORT, DROP, ENDFINALLY, RET>>,          \* ABORT in a try body
    <<TRY, 6, 0, 17, PUSH0, DIV, DROP, RET>>,             \* DIV by zero in a try body
    <<TRY, 6, 0, 17, PUSH0, MOD, DROP, RET>>,             \* MOD by zero in a try body
    <<TRY, 0, 5, PUSH0, ASSERT, ENDFINALLY, RET>>,        \* ASSERT false in a try body
    <<TRY, 5, 0, 17, THROW, THROW>>,                      \* the catch block throws again
    <<PUSHDATA1, 3, 1, 1, 1, RET>>,                       \* data above MaxItemSize
    <<PUSHDATA1, 2, 1, 1, PUSHDATA1, 1, 1, CAT, RET>>,    \* CAT above MaxItemSize
    <<19, NEWBUFFER, RET>>,                               \* buffer above MaxItemSize
    <<PUSHINT8, 127, 17, ADD, RET>>,                      \* sum above MaxIntegerSize
    <<ENDTRY, 2, RET>>,                                   \* ENDTRY without a handler
    <<TRY, 0, 5, ENDTRY, 2, ENDTRY, 2, RET>>,             \* ENDTRY in a finally block
    <<TRY, 5, 0, ENDTRY, 3, DROP, RET>>,                  \* ENDTRY of a catch-only handler
    <<JMP, 3, RET, TRY, 5, 0, ENDTRY, 252, DROP, RET>>,   \* ENDTRY backwards
    <<TRY, 9, 0, TRY, 0, 5, 17, THROW, ENDFINALLY, DROP, RET>>, \* finally inside a catch
    <<TRY, 0, 0, RET>>,                                   \* TRY with neither block
    <<TRY, 3, 0, TRY, 3, 0, TRY, 3, 0, RET>>,             \* TRY above MaxTryNestingDepth
    <<JMP, 4, DROP, RET, TRY, 254, 0, 17, THROW>>,        \* catch block before the TRY
    <<JMP, 5, RET>>,                                      \* jump beyond the script
    <<JMP, 254, RET>>,                                    \* jump before the script
    <<PUSH0, JMPIF, 3, 17, RET>>,                         \* conditional jump not taken
    <<17, JMPIF, 9, RET>>,                                \* conditional jump beyond the script
    <<INITSSLOT, 18, RET>>,                               \* INITSSLOT followed by the byte 2
    <<17, PUSHINT8>>,                                     \* operand beyond the end
    <<17, PUSHDATA1>>,                                    \* length prefix beyond the end
    <<17, PUSHDATA1, 2, 1>>,                              \* declared data beyond the end
    <<NEWARRAY0, DROP, 17, 17, 17, 17, RET>>,             \* garbage, then four items returned
    <<CALL, 9, RET>>,                                     \* call beyond the script
    <<TRY, 0, 9, ENDTRY, 9, RET>>,                        \* finally and end beyond the script
    <<PUSHDATA1, 2, 1, 1, RET>>,                          \* two bytes of data
    <<PUSHDATA1, 254>> \o [i \in 1..254 |-> 1] \o <<RET>> } \* 254 bytes of data

RvCounts == {-1, 0, 1}

IdleEngine == new_with_limits(<<>>, -1)

IdleCounter == [rc |-> NewCounter, objs |-> <<>>, prim |-> 0]

(***************************************************************************)
(* The engine driven by its host: load_script before the run, execute(),   *)
(* whose loop is taken one execute_next at a time, and execute_next called *)
(* directly.  last_call records the host's last call and the state it was  *)
(* made in, returned what execute returned.                                *)
(***************************************************************************)
Init ==
  /\ \E program \in Scripts, rv_count \in RvCounts :
        vm = new_with_limits(program, rv_count)
  /\ vm2 = IdleEngine
  /\ rcs = IdleCounter
  /\ conv = IdleConversion
  /\ sb = ScriptBuilder_new
  /\ es = IdleStacks
  /\ sc = IdleScript
  /\ tj = IdleTarjan
  /\ sq = IdleSqrt

LoadScript ==
  /\ ~vm.in_execute /\ ~vm.panicked
  /\ vm.state = "Break" /\ vm.nsteps = 0
  /\ LET loaded == load_script(vm, vm.program, vm.rv_count, 0)
     IN vm' = [loaded.e EXCEPT !.last_call =
                 [op |-> IF loaded.ok THEN "load_script: Ok" ELSE "load_script: Err",
                  from |-> vm.state]]
  /\ UNCHANGED <<vm2, rcs, conv, sb, es, sc, tj, sq>>

\* execute() up to its first test of the loop condition.
Execute ==
  /\ ~vm.in_execute /\ ~vm.panicked
  /\ LET e == IF vm.state = "Break" THEN [vm EXCEPT !.state = "None"] ELSE vm
     IN vm' = IF Running(e)
              THEN [e EXCEPT !.in_execute = TRUE, !.returned = "Nothing",
                             !.last_call = [op |-> "execute", from |-> vm.state]]
              ELSE [e EXCEPT !.returned = e.state,
                             !.last_call = [op |-> "execute", from |-> vm.state]]
  /\ UNCHANGED <<vm2, rcs, conv, sb, es, sc, tj, sq>>

\* One turn of execute's loop, and the test that follows it.
ExecuteLoop ==
  /\ vm.in_execute /\ ~vm.panicked
  /\ vm.nsteps < MaxSteps
  /\ \E e \in execute_next(vm) :
        vm' = IF Running(e) \/ e.panicked THEN Stepped(vm, e)
              ELSE [Stepped(vm, e) EXCEPT !.in_execute = FALSE, !.returned = e.state]
  /\ UNCHANGED <<vm2, rcs, conv, sb, es, sc, tj, sq>>

\* The host calls execute_next itself.
ExecuteNext ==
  /\ ~vm.in_execute /\ ~vm.panicked
  /\ vm.nsteps < MaxSteps
  /\ \E e \in execute_next(vm) :
        vm' = [Stepped(vm, e) EXCEPT
                 !.last_call = [op |-> "execute_next", from |-> vm.state]]
  /\ UNCHANGED <<vm2, rcs, conv, sb, es, sc, tj, sq>>

Next == LoadScript \/ Execute \/ ExecuteLoop \/ ExecuteNext

Spec == Init /\ [][Next]_vars

(***************************************************************************)
(* Properties of the engine.                                               *)
(***************************************************************************)
Range(f) == {f[i] : i \in DOMAIN f}

\* A step that dispatched: execute_instruction ran on a loaded context.
Dispatched ==
  /\ vm'.nsteps = vm.nsteps + 1
  /\ vm.invocation_stack # <<>>
  /\ ~vm'.panicked

\* C1: after every step that executed an instruction and its post-execute
\* check, the reference counter's total count is at most MAX_STACK_SIZE or the
\* engine state is Fault.
C1_StackBound ==
  [][Dispatched => (count(vm') <= MaxStackSize \/ vm'.state = "Fault")]_vars

\* The post-execute check has fired: the engine faulted over a count above the
\* bound.
C1_Witness ==
  vm.nsteps > 0 /\ vm.state = "Fault" /\ count(vm) > MaxStackSize

\* The references the engine holds: items on the evaluation stacks of the
\* contexts on the invocation stack, on the result stack, in the slots of
\* those contexts, and held by tracked compounds on their children.
LiveReferences(e) ==
  LET loaded == Range(e.invocation_stack)
      stacks == {evaluation_stack(e, c) : c \in loaded}
  IN SumFun([sid \in stacks |->
               Len(inner_list(e, sid)) + Len(e.shared[sid].static_fields)])
     + Len(e.result_stack)
     + SumFun([c \in loaded |->
                 Len(e.contexts[c].local_variables) + Len(e.contexts[c].arguments)])
     + SumFun([p \in e.rc.tracked_items |-> ChildCount(e.objs[p])])

\* C2: at every dispatch boundary the total count is non-negative and equals
\* the number of live references; what an unloaded context held is no longer
\* counted.
C2_CountIsLive ==
  ~vm.panicked => (count(vm) >= 0 /\ count(vm) = LiveReferences(vm))

\* C5: every TRY that was given a finally block has had that block entered
\* exactly once by the time the context that executed the TRY has left the
\* invocation stack, and never more than once.
C5_FinallyOnce ==
  ~vm.panicked =>
    \A i \in DOMAIN vm.hist :
       /\ vm.hist[i].runs <= 1
       /\ (vm.hist[i].ctx \notin Range(vm.invocation_stack) => vm.hist[i].runs = 1)

\* The handler on top of context c's try stack takes an exception in this step.
Claims(c) ==
  LET before == vm.contexts[c].try_stack
      after == vm'.contexts[c].try_stack
  IN /\ after # <<>>
     /\ Len(after) <= Len(before)
     /\ Last(after).state \in {"Catch", "Finally"}
     /\ before[Len(after)].state # Last(after).state

\* The engine holds no pointer to context c any more.
Unloaded(e, c) ==
  /\ c \notin Range(e.invocation_stack)
  /\ e.current_context # c
  /\ e.entry_context # c

\* C6: when a handler in a context C below the top of the invocation stack
\* claims an exception, C and the contexts below it stay on the stack in
\* order, and every context above C is unloaded.
C6_UnwindExact ==
  [][\A i \in 1..(Len(vm.invocation_stack) - 1) :
       (Dispatched /\ Claims(vm.invocation_stack[i])) =>
          /\ vm'.invocation_stack = SubSeq(vm.invocation_stack, 1, i)
          /\ \A j \in (i + 1)..Len(vm.invocation_stack) :
                Unloaded(vm', vm.invocation_stack[j])]_vars

\* C7: execute() called in state Fault executes no instruction, returns
\* Fault, and leaves the invocation stack, the contexts with their instruction
\* pointers, the evaluation stacks and the result stack as they were.
C7_FaultRefusesExecute ==
  [][(vm.state = "Fault" /\ Execute) =>
       /\ vm'.returned = "Fault" /\ ~vm'.in_execute
       /\ vm'.state = "Fault"
       /\ vm'.nsteps = vm.nsteps
       /\ vm'.invocation_stack = vm.invocation_stack
       /\ vm'.contexts = vm.contexts
       /\ vm'.shared = vm.shared
       /\ vm'.result_stack = vm.result_stack]_vars

\* The host has called execute() on an engine that had faulted after running
\* instructions, with contexts still loaded.
C7_Witness ==
  /\ vm.last_call = [op |-> "execute", from |-> "Fault"]
  /\ vm.nsteps > 0
  /\ vm.invocation_stack # <<>>

\* C8: Fault and Halt are terminal: no step takes the engine out of either.
C8_Terminal ==
  [][/\ vm.state = "Fault" => vm'.state = "Fault"
     /\ vm.state = "Halt" => vm'.state = "Halt"]_vars

\* C9: the invocation stack never exceeds MAX_INVOCATION_STACK_SIZE; a
\* load_script on a full stack returns an error and leaves the invocation
\* stack, current_context and entry_context alone; otherwise it pushes exactly
\* one new context, which becomes the current context.
C9_InvocationBound ==
  [][/\ Len(vm'.invocation_stack) <= MaxInvocationStackSize
     /\ LoadScript =>
          IF Len(vm.invocation_stack) >= MaxInvocationStackSize
          THEN /\ vm'.last_call.op = "load_script: Err"
               /\ vm'.invocation_stack = vm.invocation_stack
               /\ vm'.current_context = vm.current_context
               /\ vm'.entry_context = vm.entry_context
          ELSE /\ vm'.last_call.op = "load_script: Ok"
               /\ Front(vm'.invocation_stack) = vm.invocation_stack
               /\ Last(vm'.invocation_stack) \notin Range(vm.invocation_stack)
               /\ vm'.current_context = Last(vm'.invocation_stack)]_vars

\* A load was refused on a full invocation stack.
C9_Witness ==
  /\ vm.last_call.op = "load_script: Err"
  /\ Len(vm.invocation_stack) = MaxInvocationStackSize

\* RET is about to execute in the only loaded context, whose rv_count is -1
\* or the number of items on its evaluation stack.
RetInOnlyContext ==
  /\ Dispatched
  /\ Len(vm.invocation_stack) = 1
  /\ vm.current_context = vm.invocation_stack[1]
  /\ LET c == vm.current_context
         ins == current_instruction(vm, c)
         items == inner_list(vm, evaluation_stack(vm, c))
     IN /\ ins.ok /\ ins.opcode = RET
        /\ vm.contexts[c].rv_count \in {-1, Len(items)}

\* C10: RET in the only context halts the engine, empties the invocation
\* stack and leaves on the result stack exactly the items of that context's
\* evaluation stack, bottom to top.
C10_RetHalts ==
  [][RetInOnlyContext =>
       /\ vm'.state = "Halt"
       /\ vm'.invocation_stack = <<>>
       /\ vm'.result_stack =
            inner_list(vm, evaluation_stack(vm, vm.current_context))]_vars

\* RET is about to execute in a context whose rv_count is not negative and
\* whose evaluation stack, which it shares with nobody it returns to, holds a
\* different number of items.
RetCountMismatch ==
  /\ Dispatched
  /\ vm.current_context = Last(vm.invocation_stack)
  /\ LET c == vm.current_context
         ins == current_instruction(vm, c)
         from == evaluation_stack(vm, c)
         stack_eval == IF Len(vm.invocation_stack) = 1 THEN 0
                       ELSE evaluation_stack(vm, vm.invocation_stack[Len(vm.invocation_stack) - 1])
     IN /\ ins.ok /\ ins.opcode = RET
        /\ from # stack_eval
        /\ vm.contexts[c].rv_count >= 0
        /\ Len(inner_list(vm, from)) # vm.contexts[c].rv_count

\* C11: RET in a context whose rv_count is >= 0 and whose own evaluation
\* stack holds a different number of items puts the engine in Fault, and no
\* item reaches the caller's evaluation stack or the result stack.
C11_RetMismatchFaults ==
  [][RetCountMismatch =>
       /\ vm'.state = "Fault"
       /\ vm'.result_stack = vm.result_stack
       /\ vm'.shared = vm.shared]_vars

\* The operands a handler pops or peeks before it does anything else.
Operands(op) ==
  CASE op \in {ADD, DIV, MOD, LT, CAT} -> 2
    [] op \in {DROP, DUP, THROW, JMPIF, ASSERT, NEWBUFFER} -> 1
    [] OTHER -> 0

\* An instruction is about to execute on an evaluation stack that holds fewer
\* items than it needs.
Underflow ==
  /\ vm'.nsteps = vm.nsteps + 1
  /\ vm.invocation_stack # <<>>
  /\ vm.current_context # 0
  /\ LET c == vm.current_context
         ins == current_instruction(vm, c)
     IN /\ ins.ok
        /\ Len(inner_list(vm, evaluation_stack(vm, c))) < Operands(ins.opcode)

\* C12: an opcode that needs more operands than the evaluation stack holds
\* puts the engine in state Fault.
C12_UnderflowFaults ==
  [][Underflow => vm'.state = "Fault"]_vars

S3 == <<18, 19, LT, JMPIF, 3, PUSH0, RET, 17, RET>>

\* The engine was given S3 by one load_script at offset 0, to return
\* everything or nothing.
RunsS3 ==
  /\ vm.program = S3
  /\ vm.rv_count \in {-1, 0}
  /\ Len(vm.contexts) = 1

\* C13 as stated: the script 12 13 B5 24 03 10 40 11 40 run from offset 0
\* ends in Halt with the result stack holding exactly the Integer 1.
C13_S3ResultIsOne ==
  (RunsS3 /\ ~Running(vm)) =>
     vm.state = "Halt" /\ vm.result_stack = <<Integer(1)>>

\* C13 as amended: the script runs five instructions without a fault or a
\* panic (JMPIF at offset 3 is taken and lands on the RET at offset 6), and
\* from the fifth on the engine is in Halt with an empty invocation stack and
\* an empty result stack.
C13_S3HaltsEmpty ==
  RunsS3 =>
    /\ ~vm.panicked
    /\ vm.returned \in {"Nothing", "Halt"}
    /\ vm.result_stack = <<>>
    /\ IF vm.nsteps >= 5
       THEN vm.state = "Halt" /\ vm.invocation_stack = <<>>
       ELSE vm.state \in {"Break", "None"}

\* execute() has run S3 to its end.
C13_Witness ==
  /\ RunsS3
  /\ vm.returned = "Halt"
  /\ vm.nsteps = 5
  /\ vm.contexts[1].instruction_pointer = 6

\* The instruction about to execute raises an engine error: ABORT, ASSERT on
\* a false value, DIV or MOD of two integers by zero.
EngineError(e) ==
  LET c == e.current_context
      ins == current_instruction(e, c)
      items == inner_list(e, evaluation_stack(e, c))
      n == Len(items)
  IN /\ ins.ok
     /\ \/ ins.opcode = ABORT
        \/ ins.opcode = ASSERT /\ n >= 1 /\ ~get_boolean(items[n])
        \/ /\ ins.opcode \in {DIV, MOD} /\ n >= 2
           /\ items[n].t = "Integer" /\ items[n - 1].t = "Integer"
           /\ to_i(items[n].n) = 0

\* That instruction is inside a try body: the top handler of the current
\* context, which is the top of the invocation stack, is in state Try.
EngineErrorInTry ==
  /\ vm'.nsteps = vm.nsteps + 1
  /\ vm.invocation_stack # <<>>
  /\ vm.current_context = Last(vm.invocation_stack)
  /\ vm.contexts[vm.current_context].try_stack # <<>>
  /\ Last(vm.contexts[vm.current_context].try_stack).state = "Try"
  /\ EngineError(vm)

\* C14: ABORT, a failing ASSERT and DIV or MOD by zero inside a try body put
\* the engine in Fault; no handler changes, the engine does not jump (no
\* catch or finally block is entered), no context is unloaded, no exception
\* is recorded, and the evaluation stack loses the operands and gains nothing.
C14_EngineErrorNotCaught ==
  [][EngineErrorInTry =>
       LET c == vm.current_context
           ins == current_instruction(vm, c)
           sid == evaluation_stack(vm, c)
           items == inner_list(vm, sid)
       IN /\ vm'.state = "Fault"
          /\ ~vm'.panicked
          /\ \A k \in DOMAIN vm.contexts :
                vm'.contexts[k].try_stack = vm.contexts[k].try_stack
          /\ vm'.contexts[c].instruction_pointer
                \in {vm.contexts[c].instruction_pointer,
                     vm.contexts[c].instruction_pointer + size(ins)}
          /\ vm'.invocation_stack = vm.invocation_stack
          /\ vm'.uncaught_exception = vm.uncaught_exception
          /\ inner_list(vm', sid) = SubSeq(items, 1, Len(items) - Operands(ins.opcode))]_vars

\* DIV has faulted on a zero divisor inside a try body that has a catch
\* block, and the handler is still in state Try.
C14_Witness ==
  /\ vm.state = "Fault"
  /\ vm.invocation_stack # <<>>
  /\ LET c == Last(vm.invocation_stack)
         ip == vm.contexts[c].instruction_pointer
     IN /\ vm.contexts[c].try_stack # <<>>
        /\ Last(vm.contexts[c].try_stack).state = "Try"
        /\ Last(vm.contexts[c].try_stack).catch_pointer # -1
        /\ ip > 0
        /\ script_of(vm, c)[ip] = DIV
        /\ inner_list(vm, evaluation_stack(vm, c)) = <<>>

\* execute_throw drops a handler that is in state Finally, or in state Catch
\* with no finally block.
Discarded(handler) ==
  \/ handler.state = "Finally"
  \/ handler.state = "Catch" /\ handler.finally_pointer = -1

\* THROW is about to execute on a value, and every handler of every context
\* on the invocation stack is one that execute_throw drops.
ThrowUnclaimed ==
  /\ vm'.nsteps = vm.nsteps + 1
  /\ vm.invocation_stack # <<>>
  /\ vm.current_context = Last(vm.invocation_stack)
  /\ LET c == vm.current_context
         ins == current_instruction(vm, c)
     IN /\ ins.ok /\ ins.opcode = THROW
        /\ inner_list(vm, evaluation_stack(vm, c)) # <<>>
  /\ \A c \in Range(vm.invocation_stack) :
        \A k \in DOMAIN vm.contexts[c].try_stack : Discarded(vm.contexts[c].try_stack[k])

\* C15: a THROW that no handler on the invocation stack can claim puts the
\* engine in Fault, and uncaught_exception then holds the thrown value.
C15_UnclaimedThrowFaults ==
  [][ThrowUnclaimed =>
       /\ vm'.state = "Fault"
       /\ ~vm'.panicked
       /\ vm'.uncaught_exception =
            Last(inner_list(vm, evaluation_stack(vm, vm.current_context)))]_vars

\* The catch block of the only handler has thrown the value it caught: the
\* handler was dropped and the engine faulted holding that value.
C15_Witness ==
  /\ vm.program = <<TRY, 5, 0, 17, THROW, THROW>>
  /\ vm.state = "Fault"
  /\ vm.uncaught_exception = Integer(1)
  /\ vm.nsteps = 4
  /\ \A c \in DOMAIN vm.contexts : vm.contexts[c].try_stack = <<>>

\* Every item on an evaluation stack or on the result stack is within
\* MAX_ITEM_SIZE bytes.
ItemsWithinSize(e) ==
  /\ \A sid \in DOMAIN e.shared :
        \A i \in DOMAIN e.shared[sid].evaluation_stack :
           Len(e.shared[sid].evaluation_stack[i].bytes) <= MaxItemSize
  /\ \A i \in DOMAIN e.result_stack : Len(e.result_stack[i].bytes) <= MaxItemSize

\* The instruction about to execute would make a value above MAX_ITEM_SIZE:
\* PUSHDATA1 with that much data, NEWBUFFER of such a size, CAT of two values
\* that long together.
Oversize(e) ==
  LET c == e.current_context
      ins == current_instruction(e, c)
      items == inner_list(e, evaluation_stack(e, c))
      n == Len(items)
  IN /\ ins.ok
     /\ \/ ins.opcode = PUSHDATA1 /\ Len(ins.operand) > MaxItemSize
        \/ /\ ins.opcode = NEWBUFFER /\ n >= 1
           /\ items[n].t = "Integer" /\ to_i(items[n].n) > MaxItemSize
        \/ /\ ins.opcode = CAT /\ n >= 2
           /\ items[n].t \in {"ByteString", "Buffer"}
           /\ items[n - 1].t \in {"ByteString", "Buffer"}
           /\ Len(items[n - 1].bytes) + Len(items[n].bytes) > MaxItemSize

\* C16: no value above MAX_ITEM_SIZE bytes is ever on a stack, and PUSHDATA,
\* NEWBUFFER and CAT whose result would be larger put the engine in Fault
\* and push nothing.
C16_ItemSizeBound ==
  [][/\ ItemsWithinSize(vm')
     /\ (/\ vm'.nsteps = vm.nsteps + 1
         /\ vm.invocation_stack # <<>>
         /\ vm.current_context = Last(vm.invocation_stack)
         /\ Oversize(vm))
        => LET sid == evaluation_stack(vm, vm.current_context)
           IN /\ vm'.state = "Fault"
              /\ Len(inner_list(vm', sid)) <= Len(inner_list(vm, sid))
              /\ \A i \in DOMAIN inner_list(vm', sid) :
                    inner_list(vm', sid)[i] = inner_list(vm, sid)[i]]_vars

\* The opcodes whose handler pushes the Integer it computed.
ArithmeticOpcodes == {ADD, DIV, MOD}

\* An Integer fits MAX_INTEGER_SIZE bytes of two's complement.
FitsInteger(big) == Len(to_signed_bytes_le(big)) <= MaxIntegerSize

\* An arithmetic instruction on two Integers has just executed.
ArithmeticStep ==
  /\ vm'.nsteps = vm.nsteps + 1
  /\ vm.invocation_stack # <<>>
  /\ vm.current_context # 0
  /\ LET c == vm.current_context
         ins == current_instruction(vm, c)
         items == inner_list(vm, evaluation_stack(vm, c))
         n == Len(items)
     IN /\ ins.ok
        /\ ins.opcode \in ArithmeticOpcodes
        /\ n >= 2
        /\ items[n].t = "Integer" /\ items[n - 1].t = "Integer"

\* C17: every Integer an arithmetic opcode pushes fits MAX_INTEGER_SIZE bytes
\* of two's complement; when the result would not fit the engine faults.
C17_ArithmeticResultFits ==
  [][ArithmeticStep
       => LET sid == evaluation_stack(vm, vm.current_context)
              before == inner_list(vm, sid)
              after == inner_list(vm', sid)
          IN \/ vm'.state = "Fault"
             \/ /\ Len(after) = Len(before) - 1
                /\ after[Len(after)].t = "Integer"
                /\ FitsInteger(after[Len(after)].n)]_vars

\* The instruction `op` is dispatched in the current context by this step.
Executes(op) ==
  /\ vm'.nsteps = vm.nsteps + 1
  /\ vm.invocation_stack # <<>>
  /\ vm.current_context # 0
  /\ LET ins == current_instruction(vm, vm.current_context)
     IN ins.ok /\ ~ins.panic /\ ins.opcode = op

\* C23: ENDTRY end_off at position ip with the top handler in state Try or
\* Catch: with a finally block the handler stays, takes end_pointer
\* ip + end_off and state Finally, and execution goes on at finally_pointer;
\* without one the handler is popped and execution goes on at ip + end_off.
\* ENDTRY with the top handler in state Finally, or with no handler, puts
\* the engine in Fault.
C23_EndTry ==
  [][Executes(ENDTRY) =>
       LET c == vm.current_context
           ip == vm.contexts[c].instruction_pointer
           end_off == token_i8(current_instruction(vm, c))
           try_stack == vm.contexts[c].try_stack
           after == vm'.contexts[c].try_stack
           n == Len(try_stack)
       IN IF try_stack = <<>> \/ Last(try_stack).state = "Finally"
          THEN vm'.state = "Fault"
          ELSE IF Last(try_stack).finally_pointer # -1
          THEN /\ Len(after) = n
               /\ after[n].state = "Finally"
               /\ after[n].end_pointer = ip + end_off
               /\ vm'.contexts[c].instruction_pointer = try_stack[n].finally_pointer
               /\ vm'.state # "Fault"
          ELSE /\ after = Front(try_stack)
               /\ vm'.contexts[c].instruction_pointer = ip + end_off
               /\ vm'.state # "Fault"]_vars

\* C24: ENDFINALLY at the end of a finally block that ENDTRY entered (top
\* handler in state Finally, no exception pending) pops the handler, does
\* not fault and goes on at the end_pointer that ENDTRY recorded; ENDFINALLY
\* with no handler puts the engine in Fault.
C24_EndFinally ==
  [][Executes(ENDFINALLY) =>
       LET c == vm.current_context
           try_stack == vm.contexts[c].try_stack
       IN IF try_stack = <<>> THEN vm'.state = "Fault"
          ELSE (Last(try_stack).state = "Finally" /\ vm.uncaught_exception = NoItem) =>
                  /\ vm'.contexts[c].try_stack = Front(try_stack)
                  /\ vm'.state # "Fault"
                  /\ vm'.contexts[c].instruction_pointer = Last(try_stack).end_pointer]_vars

\* The handlers of try stack ts that execute_throw does not drop.
Kept(ts) == {k \in DOMAIN ts : ~Discarded(ts[k])}

\* Position i of the invocation stack holds the first handler that the walk
\* from the top does not drop.
FirstKept(i) ==
  /\ i \in DOMAIN vm.invocation_stack
  /\ Kept(vm.contexts[vm.invocation_stack[i]].try_stack) # {}
  /\ \A j \in (i + 1)..Len(vm.invocation_stack) :
        Kept(vm.contexts[vm.invocation_stack[j]].try_stack) = {}

TopKept(ts) == CHOOSE k \in Kept(ts) : \A j \in Kept(ts) : j <= k

\* THROW executes on a value in the top context.
Throws ==
  /\ Executes(THROW)
  /\ vm.current_context = Last(vm.invocation_stack)
  /\ inner_list(vm, evaluation_stack(vm, vm.current_context)) # <<>>

\* C25: when THROW executes and the first handler not dropped on the walk
\* from the top of the invocation stack is in state Try and has a catch
\* block, then after the instruction that handler is in state Catch, the
\* thrown value is on top of its context's evaluation stack, that context
\* executes next, at catch_pointer, uncaught_exception is cleared and the
\* engine is not in Fault.
C25_ThrowCaught ==
  [][\A i \in DOMAIN vm.invocation_stack :
       LET c == vm.invocation_stack[i]
           ts == vm.contexts[c].try_stack
           thrown == Last(inner_list(vm, evaluation_stack(vm, vm.current_context)))
       IN (/\ Throws /\ FirstKept(i)
           /\ ts[TopKept(ts)].state = "Try"
           /\ ts[TopKept(ts)].catch_pointer # -1)
          => /\ ~vm'.panicked
             /\ Len(vm'.contexts[c].try_stack) = TopKept(ts)
             /\ Last(vm'.contexts[c].try_stack).state = "Catch"
             /\ inner_list(vm', evaluation_stack(vm', c)) # <<>>
             /\ Last(inner_list(vm', evaluation_stack(vm', c))) = thrown
             /\ vm'.current_context = c
             /\ vm'.contexts[c].instruction_pointer = ts[TopKept(ts)].catch_pointer
             /\ vm'.uncaught_exception = NoItem
             /\ vm'.state # "Fault"]_vars

\* Some handler of the engine's invocation stack is one that execute_throw
\* does not drop.
SomeKept(e) ==
  \E c \in Range(e.invocation_stack) : Kept(e.contexts[c].try_stack) # {}

\* C26: an exception that reaches a handler with a finally block which cannot
\* catch it (state Try without a catch, or state Catch) moves the handler to
\* Finally and continues at finally_pointer with uncaught_exception still
\* set; the ENDFINALLY of that block pops the handler and resumes the
\* propagation of the same exception to the enclosing handlers, ending in
\* Fault if none claims it.  Handlers in state Finally, and in state Catch
\* without a finally, are dropped on the walk.
C26_FinallyThenPropagate ==
  [][/\ \A i \in DOMAIN vm.invocation_stack :
          LET c == vm.invocation_stack[i]
              ts == vm.contexts[c].try_stack
              thrown == Last(inner_list(vm, evaluation_stack(vm, vm.current_context)))
          IN (/\ Throws /\ FirstKept(i)
              /\ ts[TopKept(ts)].finally_pointer # -1
              /\ \/ ts[TopKept(ts)].state = "Try" /\ ts[TopKept(ts)].catch_pointer = -1
                 \/ ts[TopKept(ts)].state = "Catch")
             => /\ ~vm'.panicked
                /\ Len(vm'.contexts[c].try_stack) = TopKept(ts)
                /\ Last(vm'.contexts[c].try_stack).state = "Finally"
                /\ vm'.contexts[c].instruction_pointer = ts[TopKept(ts)].finally_pointer
                /\ vm'.uncaught_exception = thrown
                /\ vm'.state # "Fault"
     /\ (/\ Executes(ENDFINALLY)
         /\ vm.contexts[vm.current_context].try_stack # <<>>
         /\ Last(vm.contexts[vm.current_context].try_stack).state = "Finally"
         /\ vm.uncaught_exception # NoItem)
        => LET c == vm.current_context
               popped == [vm EXCEPT !.contexts[c].try_stack = Front(@)]
           IN /\ ~vm'.panicked
              /\ Len(vm'.contexts[c].try_stack) < Len(vm.contexts[c].try_stack)
              /\ IF SomeKept(popped)
                 THEN /\ vm'.state # "Fault"
                      /\ \E d \in Range(vm.invocation_stack) : Claims(d)
                 ELSE /\ vm'.state = "Fault"
                      /\ vm'.uncaught_exception = vm.uncaught_exception]_vars

\* C27: TRY with catch offset and finally offset both zero puts the engine
\* in Fault and pushes no handler; TRY on a try stack that already holds
\* MAX_TRY_NESTING_DEPTH handlers puts the engine in Fault; no try stack
\* ever holds more than MAX_TRY_NESTING_DEPTH handlers.
C27_TryLimits ==
  [][/\ \A c \in DOMAIN vm'.contexts :
          Len(vm'.contexts[c].try_stack) <= MaxTryNestingDepth
     /\ Executes(TRY) =>
          LET c == vm.current_context
              ins == current_instruction(vm, c)
          IN /\ (token_i8(ins) = 0 /\ token_i8_1(ins) = 0) =>
                   /\ vm'.state = "Fault"
                   /\ vm'.contexts[c].try_stack = vm.contexts[c].try_stack
             /\ Len(vm.contexts[c].try_stack) >= MaxTryNestingDepth =>
                   vm'.state = "Fault"]_vars

\* C28: a TRY catch_off, fin_off at position ip that does not fault pushes
\* exactly one handler, in state Try, whose catch_pointer is ip + catch_off
\* when catch_off is not 0 (absent when it is 0) and whose finally_pointer
\* is ip + fin_off when fin_off is not 0 (absent when it is 0), for negative
\* and positive offsets alike, and execution goes on with the instruction
\* after the TRY.
C28_TryPushes ==
  [][Executes(TRY) =>
       LET c == vm.current_context
           ins == current_instruction(vm, c)
           ip == vm.contexts[c].instruction_pointer
           catch_off == token_i8(ins)
           fin_off == token_i8_1(ins)
           before == vm.contexts[c].try_stack
           after == vm'.contexts[c].try_stack
       IN (/\ ~(catch_off = 0 /\ fin_off = 0)
           /\ Len(before) < MaxTryNestingDepth
           /\ vm'.state # "Fault")
          => /\ Len(after) = Len(before) + 1
             /\ SubSeq(after, 1, Len(before)) = before
             /\ Last(after).state = "Try"
             /\ Last(after).catch_pointer = (IF catch_off = 0 THEN -1 ELSE ip + catch_off)
             /\ Last(after).finally_pointer = (IF fin_off = 0 THEN -1 ELSE ip + fin_off)
             /\ vm'.contexts[c].instruction_pointer = ip + size(ins)]_vars

\* The jump opcodes that have a handler here.
JumpOpcodes == {JMP, JMPIF}

\* C29: a jump executed at position ip with offset off: taken with ip + off
\* inside the script, the next instruction is the one at ip + off; taken with
\* ip + off outside the script, the engine state becomes Fault; a
\* conditional jump not taken goes on with the instruction after it; the
\* condition operand is popped either way.
C29_Jump ==
  [][\A op \in JumpOpcodes :
       LET c == vm.current_context
           ins == current_instruction(vm, c)
           ip == vm.contexts[c].instruction_pointer
           target == ip + token_i8(ins)
           before == inner_list(vm, evaluation_stack(vm, c))
           after == inner_list(vm', evaluation_stack(vm, c))
           taken == op = JMP \/ get_boolean(Last(before))
       IN (Executes(op) /\ (op = JMPIF => before # <<>>))
          => /\ ~vm'.panicked
             /\ op = JMPIF => after = Front(before)
             /\ IF taken /\ 0 <= target /\ target < Len(script_of(vm, c))
                THEN /\ vm'.contexts[c].instruction_pointer = target
                     /\ vm'.state # "Fault"
                ELSE IF taken THEN vm'.state = "Fault"
                ELSE vm'.contexts[c].instruction_pointer = ip + size(ins)]_vars

\* C30: a CALL executed when the invocation stack already holds
\* MaxInvocationStackSize contexts puts the engine in state Fault.
C30_CallAtLimit ==
  [][(Executes(CALL) /\ Len(vm.invocation_stack) >= MaxInvocationStackSize)
       => vm'.state = "Fault"]_vars

\* C31: every opcode is dispatched to its own handler: INITSSLOT n with
\* n >= 1 in a context without static fields creates n static fields without
\* faulting, and UNPACK runs its handler, which faults on an empty stack as
\* the missing-entry path would.
C31_Dispatch ==
  [][LET c == vm.current_context
         sid == vm.contexts[c].shared_states
         ip == vm.contexts[c].instruction_pointer
         script == script_of(vm, c)
     IN /\ (/\ Executes(INITSSLOT)
            /\ ip + 2 <= Len(script)
            /\ script[ip + 2] >= 1
            /\ vm.shared[sid].static_fields = <<>>)
           => /\ vm'.state # "Fault"
              /\ Len(vm'.shared[sid].static_fields) = script[ip + 2]
        /\ (Executes(UNPACK) /\ inner_list(vm, evaluation_stack(vm, c)) = <<>>)
           => vm'.state = "Fault"]_vars

\* A step that fetches in the current context and gets a decode error.
FetchFails ==
  /\ vm'.nsteps = vm.nsteps + 1
  /\ vm.invocation_stack # <<>>
  /\ vm.current_context # 0
  /\ ~current_instruction(vm, vm.current_context).ok

\* C32: a decode error at fetch time (a pointer at or beyond the end of the
\* script, a length prefix or operand that extends beyond it, a byte that
\* is no opcode) puts the engine in state Fault and runs no handler.
C32_DecodeErrorFaults ==
  [][FetchFails => /\ vm'.state = "Fault"
                   /\ ~vm'.panicked
                   /\ vm'.contexts = vm.contexts
                   /\ vm'.shared = vm.shared
                   /\ vm'.invocation_stack = vm.invocation_stack]_vars

\* The engines the handler of the current instruction can leave behind,
\* before the post-execute check.
Handled ==
  {x \in jump_table_execute(vm, current_instruction(vm, vm.current_context)) :
     ~x.panicked}

\* The compounds that hold a stack reference, and the compounds created so
\* far that no item with a stack reference reaches.
Roots(e) == {i \in e.rc.tracked_items : e.objs[i].stack_references > 0}

Unreachable(e) == DOMAIN e.objs \ Reach(e, Roots(e))

\* C36: the collection that runs after an instruction frees every tracked
\* compound that no stack-referenced item reaches, keeps every compound that
\* one reaches, and lowers the count by the references the freed compounds
\* held; and a script that has created unreachable compounds and holds at
\* most MAX_STACK_SIZE live references does not fault with a stack overflow.
C36_Collection ==
  [][(/\ vm'.nsteps = vm.nsteps + 1
      /\ vm.invocation_stack # <<>>
      /\ vm.current_context # 0
      /\ current_instruction(vm, vm.current_context).ok)
     => \A x \in Handled :
          (count(x) >= MaxStackSize /\ vm'.rc = post_execute_instruction(x).e.rc)
          => /\ x.rc.zero_referred # {}
                => /\ vm'.rc.tracked_items = Reach(x, Roots(x))
                   /\ count(vm') = count(x) - SumFun([p \in x.rc.tracked_items \ Reach(x, Roots(x))
                                                        |-> ChildCount(x.objs[p])])
             /\ (/\ ~post_execute_instruction(x).ok
                 /\ vm'.state = "Fault"
                 /\ Unreachable(vm') # {})
                => LiveReferences(vm') > MaxStackSize]_vars

\* C37: at every dispatch boundary current_context is the top context of
\* the invocation stack, absent exactly when the stack is empty, and
\* entry_context is its bottom context.
C37_CurrentIsTop ==
  ~vm.panicked
    => IF vm.invocation_stack = <<>> THEN vm.current_context = 0
       ELSE /\ vm.current_context = Last(vm.invocation_stack)
            /\ vm.entry_context = vm.invocation_stack[1]

\* C38: in every reachable state the instruction pointer of every context on
\* the invocation stack is at most the length of its script (a negative
\* pointer stands for a usize beyond every script).
C38_PointerInScript ==
  ~vm.panicked
    => \A i \in DOMAIN vm.invocation_stack :
         LET c == vm.invocation_stack[i]
         IN /\ vm.contexts[c].instruction_pointer >= 0
            /\ vm.contexts[c].instruction_pointer <= Len(script_of(vm, c))

\* The length in bytes of a decoded instruction in the script.
encoded_length(ins) == 1 + operand_prefix(ins.opcode) + Len(ins.operand)

\* Opcodes whose handlers push and leave the instruction pointer alone.
PushingOpcodes == {PUSHINT8, PUSHDATA1, NOP} \cup (PUSHM1..PUSH16)

\* C39: for the instruction a step executes, size() is 1 + the prefix size +
\* the operand length, computed without overflow or truncation; and when the
\* instruction does not jump and the step neither faults nor panics, the
\* instruction pointer afterwards is the offset of the next instruction.
C39_SizeAndAdvance ==
  [][\A op \in PushingOpcodes :
       Executes(op) =>
         LET c == vm.current_context
             ip == vm.contexts[c].instruction_pointer
             ins == current_instruction(vm, c)
         IN /\ ~size_overflows(ins)
            /\ size(ins) = encoded_length(ins)
            /\ (~vm'.panicked /\ vm'.state # "Fault")
                 => vm'.contexts[c].instruction_pointer = ip + encoded_length(ins)]_vars

(***************************************************************************)
(* The reference counter on its own: a caller makes any sequence of the    *)
(* four calls on two compounds and two primitives.  A remove is made only  *)
(* for a reference that an earlier add created.  prim counts the           *)
(* outstanding references to items that are not tracked; no operation      *)
(* reads it.                                                               *)
(***************************************************************************)
RcItems == {Compound("Array", 1), Compound("Map", 2), Integer(1), Null}

RcParents == {Compound("Array", 1), Compound("Map", 2)}

InitRC ==
  /\ rcs = [rc |-> NewCounter, objs |-> <<NewObject("Array"), NewObject("Map")>>,
            prim |-> 0]
  /\ vm = IdleEngine
  /\ vm2 = IdleEngine
  /\ conv = IdleConversion
  /\ sb = ScriptBuilder_new
  /\ es = IdleStacks
  /\ sc = IdleScript
  /\ tj = IdleTarjan
  /\ sq = IdleSqrt

Untracked(item, n) == IF need_track(item) THEN 0 ELSE n

AddStackReference ==
  \E item \in RcItems, n \in 1..2 :
     /\ rcs.rc.references_count + n <= MaxRefs
     /\ rcs' = [add_stack_reference(rcs, item, n) EXCEPT !.prim = @ + Untracked(item, n)]
     /\ UNCHANGED <<vm, vm2, conv, sb, es, sc, tj, sq>>

RemoveStackReference ==
  \E item \in RcItems :
     /\ IF need_track(item) THEN rcs.objs[item.v].stack_references > 0
        ELSE rcs.prim > 0
     /\ rcs' = [remove_stack_reference(rcs, item) EXCEPT !.prim = @ - Untracked(item, 1)]
     /\ UNCHANGED <<vm, vm2, conv, sb, es, sc, tj, sq>>

AddReference ==
  \E item \in RcItems, parent \in RcParents :
     /\ rcs.rc.references_count + 1 <= MaxRefs
     /\ rcs' = [add_reference(rcs, item, parent) EXCEPT !.prim = @ + Untracked(item, 1)]
     /\ UNCHANGED <<vm, vm2, conv, sb, es, sc, tj, sq>>

RemoveReference ==
  \E item \in RcItems, parent \in RcParents :
     /\ IF need_track(item)
        THEN /\ parent.v \in DOMAIN rcs.objs[item.v].object_references
             /\ rcs.objs[item.v].object_references[parent.v] > 0
        ELSE rcs.prim > 0
     /\ rcs' = [remove_reference(rcs, item, parent) EXCEPT !.prim = @ - Untracked(item, 1)]
     /\ UNCHANGED <<vm, vm2, conv, sb, es, sc, tj, sq>>

NextRC == AddStackReference \/ RemoveStackReference \/ AddReference \/ RemoveReference

SpecRC == InitRC /\ [][NextRC]_vars

\* C34: after any sequence of reference-counter operations zero_referred
\* holds exactly the tracked compounds whose stack_references is 0, a
\* compound tracked only as a child included.
C34_ZeroReferredExact ==
  rcs.rc.zero_referred =
    {i \in rcs.rc.tracked_items : rcs.objs[i].stack_references = 0}

\* C3 as stated: the total count equals the sum, over the tracked items, of
\* their stack references and their per-parent object references.
C3_CountIsTrackedSum == rcs.rc.references_count = TrackedSum(rcs)

\* C3 as amended: the total count equals that sum plus the outstanding
\* references to items that are not tracked (the primitives), as long as every
\* remove releases a reference an earlier add created.
C3_CountIsTrackedSumPlusUntracked ==
  rcs.rc.references_count = TrackedSum(rcs) + rcs.prim

\* Compounds and primitives are both referenced, from the stack and from a
\* parent.
C3_Witness ==
  /\ rcs.prim > 0
  /\ \E i \in rcs.rc.tracked_items :
        /\ rcs.objs[i].stack_references > 0
        /\ SumFun(rcs.objs[i].object_references) > 0

(***************************************************************************)
(* Two engines given the same script and rv_count, each run by execute()   *)
(* from a fresh load, one after the other.                                 *)
(***************************************************************************)
InitDet ==
  /\ \E program \in Scripts, rv_count \in RvCounts :
        /\ vm = new_with_limits(program, rv_count)
        /\ vm2 = new_with_limits(program, rv_count)
  /\ rcs = IdleCounter
  /\ conv = IdleConversion
  /\ sb = ScriptBuilder_new
  /\ es = IdleStacks
  /\ sc = IdleScript
  /\ tj = IdleTarjan
  /\ sq = IdleSqrt

Loaded(e) == load_script(e, e.program, e.rv_count, 0).e

\* One turn of execute()'s loop; the first turn follows Break -> None.
Turn(e) ==
  {Stepped(e, x) :
     x \in execute_next(IF e.state = "Break" THEN [e EXCEPT !.state = "None"] ELSE e)}

Done(e) == e.contexts # <<>> /\ (~Running(e) \/ e.panicked \/ e.nsteps >= MaxSteps)

DetLoad ==
  /\ vm.contexts = <<>>
  /\ vm' = Loaded(vm)
  /\ vm2' = Loaded(vm2)
  /\ UNCHANGED <<rcs, conv, sb, es, sc, tj, sq>>

DetFirstRun ==
  /\ vm.contexts # <<>> /\ ~Done(vm)
  /\ vm' \in Turn(vm)
  /\ UNCHANGED <<vm2, rcs, conv, sb, es, sc, tj, sq>>

DetSecondRun ==
  /\ Done(vm) /\ ~Done(vm2)
  /\ vm2' \in Turn(vm2)
  /\ UNCHANGED <<vm, rcs, conv, sb, es, sc, tj, sq>>

NextDet == DetLoad \/ DetFirstRun \/ DetSecondRun

SpecDet == InitDet /\ [][NextDet]_vars

\* The result stack as a host reads it: a compound shows its contents.
ResultView(e) ==
  [i \in DOMAIN e.result_stack |->
     LET x == e.result_stack[i]
     IN IF need_track(x)
        THEN [t |-> x.t, items |-> e.objs[x.v].items, dict |-> e.objs[x.v].dict]
        ELSE x]

\* C4: two runs of execute() on the same script, position, rv_count and
\* limits end in the same state with the same result stack, in the same
\* order, also when the script enumerates a Map.
C4_Deterministic ==
  (~Running(vm) /\ ~Running(vm2) /\ ~vm.panicked /\ ~vm2.panicked) =>
     /\ vm.state = vm2.state
     /\ ResultView(vm) = ResultView(vm2)

(***************************************************************************)
(* StackItem conversions on their own: an Integer is converted to a        *)
(* ByteString and the ByteString back to an Integer.  The integers are the *)
(* small ones and, for every byte length up to MaxBytes, the values around *)
(* the power of two where the two's complement length changes, of both     *)
(* signs.                                                                  *)
(***************************************************************************)
Repeat(x, n) == [i \in 1..n |-> x]

\* The magnitudes 2^(8n-1) - 1, 2^(8n-1) and 2^(8n-1) + 1, little-endian.
BoundaryMagnitudes(n) ==
  { Repeat(255, n - 1) \o <<127>>,
    Repeat(0, n - 1) \o <<128>>,
    IF n = 1 THEN <<129>> ELSE <<1>> \o Repeat(0, n - 2) \o <<128>> }

BigInts ==
  {BigInt_from(n) : n \in -17..17}
    \cup {from_biguint(neg, mag) :
            neg \in BOOLEAN, mag \in UNION {BoundaryMagnitudes(n) : n \in 1..MaxBytes}}

InitConvert ==
  /\ \E v \in BigInts :
        conv = [stage |-> "Integer", value |-> v, item |-> BigInteger(v),
                ok |-> TRUE, err |-> 0]
  /\ vm = IdleEngine
  /\ vm2 = IdleEngine
  /\ rcs = IdleCounter
  /\ sb = ScriptBuilder_new
  /\ es = IdleStacks
  /\ sc = IdleScript
  /\ tj = IdleTarjan
  /\ sq = IdleSqrt

Converted(stage, r) ==
  [conv EXCEPT !.stage = stage, !.item = r.item, !.ok = r.ok, !.err = r.err]

ConvertToByteString ==
  /\ conv.stage = "Integer"
  /\ conv' = Converted("ByteString", convert_to(conv.item, "ByteString"))
  /\ UNCHANGED <<vm, vm2, rcs, sb, es, sc, tj, sq>>

ConvertToInteger ==
  /\ conv.stage = "ByteString" /\ conv.ok
  /\ conv' = Converted("back", convert_to(conv.item, "Integer"))
  /\ UNCHANGED <<vm, vm2, rcs, sb, es, sc, tj, sq>>

NextConvert == ConvertToByteString \/ ConvertToInteger

SpecConvert == InitConvert /\ [][NextConvert]_vars

\* C18: for every integer that two's complement holds in at most 32 bytes,
\* converting the Integer to a ByteString and that ByteString back to an
\* Integer succeeds and gives the same integer.
C18_RoundTrip ==
  (conv.stage = "back" /\ Len(to_signed_bytes_le(conv.value)) <= MAX_SIZE)
     => (conv.ok /\ conv.item = BigInteger(conv.value))

(***************************************************************************)
(* ScriptBuilder (script_builder.rs).  The builder's state is its output;  *)
(* sb also records the last call: which one, its arguments, the output     *)
(* before it and whether it returned Ok.  The builder names the opcodes    *)
(* PushM1, CallL, ...; they are read as op_code.rs's PUSHM1, CALL_L, ...   *)
(* A caller makes calls while the output is shorter than MaxOutput.        *)
(***************************************************************************)
emit(output, opcode, operand) == Append(output, opcode) \o operand

\* i32::to_le_bytes: the two's complement of a negative offset is the
\* complement of -(offset + 1).
i32_to_le_bytes(offset) ==
  LET u32(u) == <<u % 256, (u \div 256) % 256, (u \div 65536) % 256,
                  (u \div 16777216) % 256>>
  IN IF offset >= 0 THEN u32(offset)
     ELSE [i \in 1..4 |-> 255 - u32(0 - (offset + 1))[i]]

\* offset as u8 keeps the low byte.
as_u8(offset) == i32_to_le_bytes(offset)[1]

emit_call_short(output, offset) == emit(output, CALL, <<as_u8(offset)>>)

emit_call(output, offset) ==
  IF offset < -128 \/ offset > 127
  THEN emit(output, CALL_L, i32_to_le_bytes(offset))
  ELSE emit(output, CALL, <<as_u8(offset)>>)

emit_jump(output, opcode, offset) ==
  IF opcode < JMP \/ opcode > JMPLE_L THEN [ok |-> FALSE, output |-> output]
  ELSE LET opcode_u8 == IF opcode % 2 = 0 /\ (offset < -128 \/ offset > 127)
                        THEN opcode + 1 ELSE opcode
       IN IF opcode_u8 % 2 = 0
          THEN [ok |-> TRUE, output |-> emit(output, opcode_u8, <<as_u8(offset)>>)]
          ELSE [ok |-> TRUE, output |-> emit(output, opcode_u8, i32_to_le_bytes(offset))]

\* -2^255.
MinInteger == from_biguint(TRUE, Repeat(0, 31) \o <<128>>)

emit_int_unpadded(output, value) ==
  IF value = BigInt_from(-1) THEN [ok |-> TRUE, output |-> emit(output, PUSHM1, <<>>)]
  ELSE IF ~value.neg /\ (value.mag = <<>> \/ (Len(value.mag) = 1 /\ value.mag[1] <= 16))
  THEN [ok |-> TRUE, output |-> emit(output, PUSH0 + to_signed_bytes_le(value)[1], <<>>)]
  ELSE IF bits(value) > 255 /\ value # MinInteger THEN [ok |-> FALSE, output |-> output]
  ELSE LET bytes_written == to_signed_bytes_le(value)
           written_len == Len(bytes_written)
           opcode == CASE written_len = 1 -> PUSHINT8
                       [] written_len = 2 -> PUSHINT16
                       [] written_len \in 3..4 -> PUSHINT32
                       [] written_len \in 5..8 -> PUSHINT64
                       [] written_len \in 9..16 -> PUSHINT128
                       [] OTHER -> PUSHINT256
       IN IF written_len > 32 THEN [ok |-> FALSE, output |-> output]
          ELSE [ok |-> TRUE, output |-> emit(output, opcode, bytes_written)]

\* value > -1 is "not negative"; value <= 16 is read off the magnitude.
emit_int(output, value) ==
  IF value = BigInt_from(-1) THEN [ok |-> TRUE, output |-> emit(output, PUSHM1, <<>>)]
  ELSE IF ~value.neg /\ (value.mag = <<>> \/ (Len(value.mag) = 1 /\ value.mag[1] <= 16))
  THEN [ok |-> TRUE, output |-> emit(output, PUSH0 + to_signed_bytes_le(value)[1], <<>>)]
  ELSE IF bits(value) > 255 /\ value # MinInteger THEN [ok |-> FALSE, output |-> output]
  ELSE LET is_negative == value.neg
           bytes_written == to_signed_bytes_le(value)
           written_len == Len(bytes_written)
           opcode == CASE written_len = 1 -> PUSHINT8
                       [] written_len = 2 -> PUSHINT16
                       [] written_len \in 3..4 -> PUSHINT32
                       [] written_len \in 5..8 -> PUSHINT64
                       [] written_len \in 9..16 -> PUSHINT128
                       [] OTHER -> PUSHINT256
           pad_len == CASE written_len = 1 -> 1
                        [] written_len = 2 -> 2
                        [] written_len \in 3..4 -> 4
                        [] written_len \in 5..8 -> 8
                        [] written_len \in 9..16 -> 16
                        [] OTHER -> 32
           sign_byte == IF is_negative THEN 255 ELSE 0
       IN IF written_len > 32 THEN [ok |-> FALSE, output |-> output]
          ELSE [ok |-> TRUE,
                output |-> emit(output, opcode,
                                bytes_written \o Repeat(sign_byte, pad_len - written_len))]

\* The i32 offsets a caller passes: the ends of the i8 and i32 ranges and
\* values inside them.
Offsets ==
  {(0 - 2147483647) - 1, -12345, -129, -128, -1, 0, 127, 128, 12345, 2147483647}

\* The integers a caller passes to emit_int: the one-opcode values and their
\* neighbours, and the values around the ends of each operand width.
WidthEdges == {n \in 1..MaxBytes : n \in {1, 2, 3, 4, 5, 8, 9, 16, 17, 32, 33}}

EmitInts ==
  {BigInt_from(n) : n \in -2..17}
    \cup {from_biguint(neg, mag) :
            neg \in BOOLEAN, mag \in UNION {BoundaryMagnitudes(n) : n \in WidthEdges}}

\* The opcodes a caller passes to emit_jump: every jump opcode and the two
\* opcodes next to their range.
JumpInputs == NOP..CALL

InitBuilder ==
  /\ sb = ScriptBuilder_new
  /\ es = IdleStacks
  /\ sc = IdleScript
  /\ tj = IdleTarjan
  /\ sq = IdleSqrt
  /\ vm = IdleEngine
  /\ vm2 = IdleEngine
  /\ rcs = IdleCounter
  /\ conv = IdleConversion

Called(name, r, value, opcode, offset) ==
  [output |-> r.output, call |-> name, ok |-> r.ok, before |-> sb.output,
   value |-> value, opcode |-> opcode, offset |-> offset]

EmitInt ==
  /\ Len(sb.output) < MaxOutput
  /\ \E value \in EmitInts :
        sb' = Called("emit_int", emit_int(sb.output, value), value, 0, 0)
  /\ UNCHANGED <<vm, vm2, rcs, conv, es, sc, tj, sq>>

EmitCall ==
  /\ Len(sb.output) < MaxOutput
  /\ \E offset \in Offsets :
        sb' = Called("emit_call", [ok |-> TRUE, output |-> emit_call(sb.output, offset)],
                     BigInt_from(0), CALL, offset)
  /\ UNCHANGED <<vm, vm2, rcs, conv, es, sc, tj, sq>>

EmitJump ==
  /\ Len(sb.output) < MaxOutput
  /\ \E opcode \in JumpInputs, offset \in Offsets :
        sb' = Called("emit_jump", emit_jump(sb.output, opcode, offset),
                     BigInt_from(0), opcode, offset)
  /\ UNCHANGED <<vm, vm2, rcs, conv, es, sc, tj, sq>>

NextBuilder == EmitInt \/ EmitCall \/ EmitJump

SpecBuilder == InitBuilder /\ [][NextBuilder]_vars

\* What the last call appended to the output it found.
Appended == SubSeq(sb.output, Len(sb.before) + 1, Len(sb.output))

KeepsPrefix ==
  /\ Len(sb.output) >= Len(sb.before)
  /\ SubSeq(sb.output, 1, Len(sb.before)) = sb.before

Widths == {1, 2, 4, 8, 16, 32}

\* -2^(8w-1) <= b < 2^(8w-1), read off the sign and the magnitude.
FitsWidth(b, w) ==
  \/ bits(b) <= 8 * w - 1
  \/ b.neg /\ b.mag = Repeat(0, w - 1) \o <<128>>

SmallestWidth(b) ==
  CHOOSE w \in Widths : FitsWidth(b, w) /\ \A u \in Widths : FitsWidth(b, u) => w <= u

PushIntOpcode(w) ==
  CASE w = 1 -> PUSHINT8 [] w = 2 -> PUSHINT16 [] w = 4 -> PUSHINT32
    [] w = 8 -> PUSHINT64 [] w = 16 -> PUSHINT128 [] w = 32 -> PUSHINT256

\* C19: emit_int(v) appends PUSHM1 for -1, the one opcode PUSH0+v for
\* 0..16, and for any other v from -2^255 to 2^255-1 the PUSHINT opcode of
\* the smallest width of 1, 2, 4, 8, 16, 32 bytes that holds v, followed by
\* exactly that many bytes which decode, as a signed little-endian integer,
\* to v; for v outside that range it returns an error and appends nothing.
C19_EmitIntEncoding ==
  sb.call = "emit_int" =>
     LET v == sb.value
     IN /\ KeepsPrefix
        /\ IF v = BigInt_from(-1) THEN sb.ok /\ Appended = <<PUSHM1>>
           ELSE IF v \in {BigInt_from(n) : n \in 0..16}
           THEN sb.ok /\ Appended = <<PUSH0 + to_i(v)>>
           ELSE IF FitsWidth(v, MAX_SIZE)
           THEN /\ sb.ok
                /\ Appended # <<>>
                /\ Appended[1] = PushIntOpcode(SmallestWidth(v))
                /\ Len(Tail(Appended)) = SmallestWidth(v)
                /\ from_signed_bytes_le(Tail(Appended)) = v
           ELSE ~sb.ok /\ Appended = <<>>

\* A negative integer of 17 bytes was emitted after an earlier emit, and an
\* integer out of range was refused.
C19_Witness ==
  /\ sb.call = "emit_int" /\ sb.ok
  /\ sb.before # <<>>
  /\ sb.value.neg
  /\ Len(to_signed_bytes_le(sb.value)) = 17
  /\ Len(Appended) = 33

\* C20: emit_call(off) appends CALL and one byte when -128 <= off <= 127 and
\* CALL_L and four little-endian bytes otherwise; emit_jump(op, off) with a
\* short jump opcode appends op and one byte when off fits a signed byte and
\* op's _L opcode and four little-endian bytes otherwise; the operand
\* decodes back to off; emit_jump with an opcode outside JMP..JMPLE_L
\* returns an error and appends nothing.
C20_OffsetWidth ==
  LET off == sb.offset
      short == -128 <= off /\ off <= 127
  IN /\ sb.call = "emit_call" =>
          /\ KeepsPrefix
          /\ IF short
             THEN /\ Len(Appended) = 2 /\ Appended[1] = CALL
                  /\ as_i8(Appended[2]) = off
             ELSE /\ Len(Appended) = 5 /\ Appended[1] = CALL_L
                  /\ i32_from_le_bytes(Tail(Appended)) = off
     /\ sb.call = "emit_jump" =>
          /\ KeepsPrefix
          /\ IF sb.opcode < JMP \/ sb.opcode > JMPLE_L
             THEN ~sb.ok /\ Appended = <<>>
             ELSE /\ sb.ok
                  /\ (sb.opcode % 2 = 0 /\ short) =>
                        /\ Len(Appended) = 2 /\ Appended[1] = sb.opcode
                        /\ as_i8(Appended[2]) = off
                  /\ (sb.opcode % 2 = 0 /\ ~short) =>
                        /\ Len(Appended) = 5 /\ Appended[1] = sb.opcode + 1
                        /\ i32_from_le_bytes(Tail(Appended)) = off
                  /\ sb.opcode % 2 = 1 =>
                        /\ Len(Appended) = 5 /\ Appended[1] = sb.opcode
                        /\ i32_from_le_bytes(Tail(Appended)) = off

\* A short jump opcode was given an offset just below the signed byte range,
\* after an earlier emit.
C20_Witness ==
  /\ sb.call = "emit_jump" /\ sb.ok
  /\ sb.before # <<>>
  /\ sb.opcode = JMPIF
  /\ sb.offset = -129
  /\ Appended = <<JMPIF + 1, 127, 255, 255, 255>>

(***************************************************************************)
(* EvaluationStack on its own: a caller makes any sequence of calls on two *)
(* stacks that share one reference counter, starting from empty stacks and *)
(* a zero counter, with an integer, Null and an Array as items.  Calls     *)
(* that add items are made while the stacks hold fewer than MaxItems.      *)
(***************************************************************************)
StackIds == {1, 2}

StackItems == {Integer(1), Null, Compound("Array", 1)}

Total(m) == Len(inner_list(m, 1)) + Len(inner_list(m, 2))

Did(m, op, s, n, ok, item) ==
  [m EXCEPT !.last = [op |-> op, s |-> s, n |-> n, ok |-> ok, item |-> item]]

InitStack ==
  /\ es = IdleStacks
  /\ sc = IdleScript
  /\ tj = IdleTarjan
  /\ sq = IdleSqrt
  /\ vm = IdleEngine
  /\ vm2 = IdleEngine
  /\ rcs = IdleCounter
  /\ conv = IdleConversion
  /\ sb = ScriptBuilder_new

StackPush ==
  /\ Total(es) < MaxItems
  /\ \E s \in StackIds, item \in StackItems :
        es' = Did(stack_push(es, s, item), "push", s, 0, TRUE, item)
  /\ UNCHANGED <<vm, vm2, rcs, conv, sb, sc, tj, sq>>

StackInsert ==
  /\ Total(es) < MaxItems
  /\ \E s \in StackIds, item \in StackItems, index \in 0..MaxItems :
        LET r == stack_insert(es, s, index, item)
        IN es' = Did(r.e, "insert", s, index, r.ok, item)
  /\ UNCHANGED <<vm, vm2, rcs, conv, sb, sc, tj, sq>>

StackPop ==
  /\ \E s \in StackIds :
        LET r == stack_pop(es, s)
        IN es' = Did(r.e, "pop", s, 0, r.ok, r.item)
  /\ UNCHANGED <<vm, vm2, rcs, conv, sb, sc, tj, sq>>

StackClear ==
  /\ \E s \in StackIds : es' = Did(stack_clear(es, s), "clear", s, 0, TRUE, NoItem)
  /\ UNCHANGED <<vm, vm2, rcs, conv, sb, sc, tj, sq>>

StackPeek ==
  /\ \E s \in StackIds, index \in 0..MaxItems :
        LET r == stack_peek(es, s, index)
        IN es' = Did(es, "peek", s, index, r.ok, r.item)
  /\ UNCHANGED <<vm, vm2, rcs, conv, sb, sc, tj, sq>>

StackReverse ==
  /\ \E s \in StackIds, n \in 0..(MaxItems + 1) :
        LET r == stack_reverse(es, s, n)
        IN es' = Did(r.e, "reverse", s, n, r.ok, NoItem)
  /\ UNCHANGED <<vm, vm2, rcs, conv, sb, sc, tj, sq>>

\* count is Some(n), or None when n is beyond every count the stacks reach.
StackCopyTo ==
  /\ \E s \in StackIds, n \in 0..(MaxItems + 1) :
        LET wanted == IF n > MaxItems THEN Len(inner_list(es, s)) ELSE n
            copied == IF wanted > Len(inner_list(es, s)) THEN Len(inner_list(es, s))
                      ELSE wanted
        IN /\ Total(es) + copied <= MaxItems
           /\ es' = Did(copy_to_count(es, s, 3 - s, wanted), "copy_to", s, n, TRUE, NoItem)
  /\ UNCHANGED <<vm, vm2, rcs, conv, sb, sc, tj, sq>>

StackMoveTo ==
  /\ \E s \in StackIds, n \in 0..(MaxItems + 1) :
        LET wanted == IF n > MaxItems THEN Len(inner_list(es, s)) ELSE n
        IN es' = Did(move_to(es, s, 3 - s, wanted), "move_to", s, n, TRUE, NoItem)
  /\ UNCHANGED <<vm, vm2, rcs, conv, sb, sc, tj, sq>>

NextStack ==
  \/ StackPush \/ StackInsert \/ StackPop \/ StackClear
  \/ StackPeek \/ StackReverse \/ StackCopyTo \/ StackMoveTo

SpecStack == InitStack /\ [][NextStack]_vars

SameStacks ==
  /\ inner_list(es', 1) = inner_list(es, 1)
  /\ inner_list(es', 2) = inner_list(es, 2)

\* C21: after every call on stacks sharing one reference counter the
\* counter's total equals the number of items on those stacks: an item
\* placed adds 1, an item removed subtracts 1, clear subtracts the stack's
\* size, move_to, peek and reverse leave the total as it was, and a rejected
\* call changes neither the stacks nor the counter.
C21_CountIsItems ==
  [][LET op == es'.last.op
         s == es'.last.s
         before == es.rc.references_count
         after == es'.rc.references_count
     IN /\ before = Total(es) => after = Total(es')
        /\ ~es'.last.ok => (SameStacks /\ es'.rc = es.rc /\ es'.objs = es.objs)
        /\ (op \in {"push", "insert"} /\ es'.last.ok) => after = before + 1
        /\ (op = "pop" /\ es'.last.ok) => after = before - 1
        /\ op = "clear" =>
              (after = before - Len(inner_list(es, s)) /\ inner_list(es', s) = <<>>)
        /\ op \in {"move_to", "peek", "reverse"} => after = before
        /\ op = "copy_to" =>
              after = before + (Len(inner_list(es', 3 - s)) - Len(inner_list(es, 3 - s)))]_vars

\* A stack holding an Array and a primitive was cleared while the other
\* stack kept an item.
C21_Witness ==
  /\ es.last.op = "clear"
  /\ inner_list(es, es.last.s) = <<>>
  /\ inner_list(es, 3 - es.last.s) # <<>>
  /\ es.rc.references_count = 1
  /\ 1 \in es.rc.zero_referred

\* C22: peek(n) returns the n-th item from the top and changes nothing;
\* after a successful insert(n, x) the n-th item from the top is x and the
\* other items are in the order they had; reverse(n) reverses the top n
\* items, leaves those below in place and undoes itself when applied again;
\* peek(n) with n >= size, and insert(n, x) or reverse(n) with n > size,
\* return an error and leave the stack as it was.
C22_TopBiased ==
  [][LET op == es'.last.op
         s == es'.last.s
         n == es'.last.n
         ok == es'.last.ok
         before == inner_list(es, s)
         after == inner_list(es', s)
         size_before == Len(before)
     IN /\ op = "peek" =>
              /\ SameStacks
              /\ IF n < size_before
                 THEN ok /\ es'.last.item = before[size_before - n]
                 ELSE ~ok
        /\ op = "insert" =>
              IF n <= size_before
              THEN /\ ok
                   /\ LET peeked == stack_peek(es', s, n)
                      IN peeked.ok /\ peeked.item = es'.last.item
                   /\ Len(after) = size_before + 1
                   /\ \A i \in 1..size_before :
                         before[i] = after[IF i <= size_before - n THEN i ELSE i + 1]
              ELSE ~ok /\ SameStacks
        /\ op = "reverse" =>
              IF n <= size_before
              THEN /\ ok
                   /\ Len(after) = size_before
                   /\ \A i \in 1..size_before :
                         after[i] = IF i <= size_before - n THEN before[i]
                                    ELSE before[2 * size_before - n + 1 - i]
                   /\ inner_list(stack_reverse(es', s, n).e, s) = before
              ELSE ~ok /\ SameStacks]_vars

\* An item was inserted one below the top of a stack of two other items.
C22_Witness ==
  /\ es.last.op = "insert" /\ es.last.ok
  /\ es.last.n = 1
  /\ LET list == inner_list(es, es.last.s)
     IN /\ Len(list) = 3
        /\ list[2] = es.last.item
        /\ list[1] # list[2] /\ list[3] # list[2] /\ list[1] # list[3]


(***************************************************************************)
(* Script on its own: a caller constructs a script from bytes, in strict   *)
(* mode or not, and then asks for the instruction at any offset.           *)
(***************************************************************************)
ScriptInputs ==
  { <<>>,
    <<17, RET>>,
    <<JMP, 2, RET>>,
    <<JMP, 1, RET>>,                  \* target inside the jump itself
    <<JMP, 5, RET>>,                  \* target beyond the script
    <<TRY, 3, 0, ENDTRY, 2, RET>>,
    <<219, 33, RET>>,                 \* CONVERT to Integer
    <<219, 1, RET>>,                  \* CONVERT to a byte that is no type
    <<PUSHDATA1, 2, 17, RET, RET>>,   \* data bytes that look like instructions
    <<17, PUSHINT8>>,                 \* operand beyond the end
    <<17, 255>> }                     \* a byte that is no opcode

InitScript ==
  /\ sc = IdleScript
  /\ tj = IdleTarjan
  /\ sq = IdleSqrt
  /\ vm = IdleEngine
  /\ vm2 = IdleEngine
  /\ rcs = IdleCounter
  /\ conv = IdleConversion
  /\ sb = ScriptBuilder_new
  /\ es = IdleStacks

ScriptNew ==
  /\ sc.last.op = "idle"
  /\ \E script \in ScriptInputs, strict_mode \in BOOLEAN :
        sc' = new_with_mode(script, strict_mode)
  /\ UNCHANGED <<vm, vm2, rcs, conv, sb, es, tj, sq>>

ScriptGetInstruction ==
  /\ sc.last.op # "idle" /\ ~sc.panicked
  /\ \E ip \in 0..Len(sc.value) :
        LET r == script_get_instruction(sc, ip)
        IN sc' = [r.s EXCEPT !.panicked = r.panic,
                             !.last = [op |-> "get_instruction", ip |-> ip, ok |-> r.ok]]
  /\ UNCHANGED <<vm, vm2, rcs, conv, sb, es, tj, sq>>

NextScript == ScriptNew \/ ScriptGetInstruction

SpecScript == InitScript /\ [][NextScript]_vars

\* The byte stream read from offset ip on: whether every instruction decodes
\* up to the end, and the offsets at which the instructions start.
RECURSIVE Walk(_, _)
Walk(script, ip) ==
  IF ip >= Len(script) THEN [ok |-> TRUE, starts |-> {}]
  ELSE LET d == instruction_new(script, ip)
       IN IF ~d.ok THEN [ok |-> FALSE, starts |-> {}]
          ELSE LET rest == Walk(script, ip + 1 + operand_prefix(d.opcode) + Len(d.operand))
               IN [ok |-> rest.ok, starts |-> rest.starts \cup {ip}]

WellFormed(script) ==
  LET w == Walk(script, 0)
  IN /\ w.ok
     /\ \A ip \in w.starts :
          LET ins == instruction_new(script, ip)
              targets == validate_targets(ins, ip)
          IN /\ \A i \in DOMAIN targets : targets[i] \in w.starts
             /\ validate_type(ins)

\* C33: constructing a script in strict mode succeeds exactly when every
\* instruction decodes, every jump, CALL, ENDTRY, PUSHA and TRY target is the
\* start of an instruction and every CONVERT, ISTYPE and NEWARRAY_T operand
\* is a valid type code; after a successful strict load get_instruction
\* succeeds at every instruction start and fails at every other offset.
C33_StrictLoad ==
  (sc.last.op # "idle" /\ sc.strict_mode)
    => /\ sc.last.op = "new_with_mode" => (~sc.panicked <=> WellFormed(sc.value))
       /\ (sc.last.op = "get_instruction" /\ WellFormed(sc.value))
            => (sc.last.ok <=> sc.last.ip \in Walk(sc.value, 0).starts)


(***************************************************************************)
(* Tarjan (tarjan.rs) on its own.  The graph is given as each node's list  *)
(* of successors; strong_connect's recursion is kept as a sequence of      *)
(* frames, the last one running, each holding its stack_item (index and    *)
(* lowlink), the successors still to visit and whether it waits for the    *)
(* call it made on the first of them.  A frame beyond MaxDepth stands for  *)
(* the exhausted thread stack.                                             *)
(*                                                                         *)
(* StackItem::new(item, index), which strong_connect calls, is not part of *)
(* the repository: it gives a node with index and lowlink equal to the     *)
(* index.  Whether it also records the index as the dfn of the graph's     *)
(* item and sets on_stack is not known (tarjan.rs itself never calls       *)
(* set_dfn); marks chooses between the two.                                *)
(***************************************************************************)
StackItem_new(t, item, index) ==
  [t EXCEPT !.stack = Append(@, [item |-> item, index |-> index]),
            !.dfn[item] = IF t.marks THEN index ELSE @,
            !.on_stack[item] = IF t.marks THEN TRUE ELSE @,
            !.frames = Append(@, [item |-> item, index |-> index, lowlink |-> index,
                                  todo |-> t.successors[item], waits |-> FALSE])]

Tarjan_new(successors, marks) ==
  [stage |-> "running", marks |-> marks, successors |-> successors,
   dfn |-> [i \in DOMAIN successors |-> -1],
   on_stack |-> [i \in DOMAIN successors |-> FALSE],
   stack_items |-> [i \in DOMAIN successors |-> i],
   stack |-> <<>>, components |-> <<>>, index |-> 0, frames |-> <<>>]

\* The call strong_connect(item): its first two statements.
strong_connect_enter(t, item) ==
  IF Len(t.frames) >= MaxDepth THEN [t EXCEPT !.stage = "overflow"]
  ELSE StackItem_new(t, item, t.index)

\* successor.dfn as usize: -1 becomes the largest usize.
dfn_as_usize(t, item) == IF t.dfn[item] < 0 THEN 2147483647 ELSE t.dfn[item]

Min(a, b) == IF a < b THEN a ELSE b

\* The component popped when lowlink == index: the stack from its back down
\* to the frame's own stack_item.
RECURSIVE pop_component(_, _, _)
pop_component(t, frame, component) ==
  IF t.stack = <<>> THEN [t |-> t, component |-> component]
  ELSE LET w == t.stack[Len(t.stack)]
           t1 == [t EXCEPT !.stack = SubSeq(@, 1, Len(@) - 1),
                           !.on_stack[w.item] = FALSE]
       IN IF w = [item |-> frame.item, index |-> frame.index]
          THEN [t |-> t1, component |-> component \cup {w.item}]
          ELSE pop_component(t1, frame, component \cup {w.item})

\* One step of the running strong_connect: the next successor, the return
\* from the call made on it, or the end of the function.
strong_connect_step(t) ==
  LET n == Len(t.frames)
      frame == t.frames[n]
  IN IF frame.todo # <<>>
     THEN LET successor == Head(frame.todo)
              lowered == [t EXCEPT !.frames[n].lowlink = Min(@, dfn_as_usize(t, successor)),
                                   !.frames[n].todo = Tail(@),
                                   !.frames[n].waits = FALSE]
          IN IF frame.waits THEN lowered
             ELSE IF t.dfn[successor] < 0
             THEN strong_connect_enter([t EXCEPT !.frames[n].waits = TRUE], successor)
             ELSE IF \E i \in DOMAIN t.stack : t.stack[i].item = successor
             THEN lowered
             ELSE [t EXCEPT !.frames[n].todo = Tail(@)]
     ELSE LET popped == IF frame.lowlink = frame.index
                        THEN LET p == pop_component(t, frame, {})
                             IN [p.t EXCEPT !.components = Append(@, p.component)]
                        ELSE t
          IN [popped EXCEPT !.index = @ + 1,
                            !.frames = SubSeq(@, 1, n - 1)]

\* One turn of invoke's loop over stack_items, or its return.
invoke_step(t) ==
  IF t.stack_items = <<>> THEN [t EXCEPT !.stage = "done"]
  ELSE LET item == Head(t.stack_items)
           t1 == [t EXCEPT !.stack_items = Tail(@)]
       IN IF t.dfn[item] < 0 THEN strong_connect_enter(t1, item) ELSE t1

Nodes == 1..MaxNodes

\* A set of nodes as the list of them in ascending order.
RECURSIVE Ascending(_)
Ascending(S) ==
  IF S = {} THEN <<>>
  ELSE LET least == CHOOSE x \in S : \A y \in S : x <= y
       IN <<least>> \o Ascending(S \ {least})

InitTarjan ==
  /\ \E n \in 1..MaxNodes, marks \in BOOLEAN :
       \E edges \in [1..n -> SUBSET (1..n)] :
          tj = Tarjan_new([i \in 1..n |-> Ascending(edges[i])], marks)
  /\ vm = IdleEngine
  /\ vm2 = IdleEngine
  /\ rcs = IdleCounter
  /\ conv = IdleConversion
  /\ sb = ScriptBuilder_new
  /\ es = IdleStacks
  /\ sc = IdleScript
  /\ sq = IdleSqrt

TarjanInvoke ==
  /\ tj.stage = "running" /\ tj.frames = <<>>
  /\ tj' = invoke_step(tj)
  /\ UNCHANGED <<vm, vm2, rcs, conv, sb, es, sc, sq>>

TarjanStrongConnect ==
  /\ tj.stage = "running" /\ tj.frames # <<>>
  /\ tj' = strong_connect_step(tj)
  /\ UNCHANGED <<vm, vm2, rcs, conv, sb, es, sc, sq>>

NextTarjan == TarjanInvoke \/ TarjanStrongConnect

SpecTarjan == InitTarjan /\ [][NextTarjan]_vars

\* The nodes reachable from the nodes of S along the successor lists.
RECURSIVE ReachableFrom(_, _)
ReachableFrom(successors, S) ==
  LET more == S \cup UNION {Range(successors[a]) : a \in S}
  IN IF more = S THEN S ELSE ReachableFrom(successors, more)

MutuallyReachable(successors, a, b) ==
  /\ b \in ReachableFrom(successors, {a})
  /\ a \in ReachableFrom(successors, {b})

\* The returned components are the strongly connected components: every
\* node is in exactly one of them, and two nodes share one exactly when each
\* is reachable from the other.
ExactComponents(t) ==
  LET nodes == DOMAIN t.successors
      holding(a) == {i \in DOMAIN t.components : a \in t.components[i]}
  IN /\ \A a \in nodes : Cardinality(holding(a)) = 1
     /\ \A a, b \in nodes :
          (holding(a) \cap holding(b) # {}) <=> MutuallyReachable(t.successors, a, b)

\* C35: invoke terminates on every finite graph, cycles and self-references
\* included, and returns exactly the strongly connected components.
C35_TarjanComponents ==
  /\ tj.stage # "overflow"
  /\ tj.stage = "done" => ExactComponents(tj)

(***************************************************************************)
(* utility::sqrt on its own: a caller asks for the square root of one      *)
(* integer between -MaxValue and MaxValue.                                 *)
(***************************************************************************)
\* BigInt::bits of a value that is not negative.
RECURSIVE bit_count(_)
bit_count(n) == IF n = 0 THEN 0 ELSE 1 + bit_count(n \div 2)

shl(a, n) == a * 2^n
shr(a, n) == a \div 2^n

\* while &x < &z { z = x.clone(); x = (value / &x + &x) / 2; }
RECURSIVE sqrt_loop(_, _, _)
sqrt_loop(value, z, x) ==
  IF x < z THEN sqrt_loop(value, x, (value \div x + x) \div 2) ELSE z

\* `+` binds tighter than the shifts and the shifts associate to the left:
\* the first x is (1 << (bits + 1)) >> 1.
sqrt(value) ==
  IF value < 0 THEN [some |-> FALSE, result |-> 0]
  ELSE IF value = 0 THEN [some |-> TRUE, result |-> 0]
  ELSE IF value < 4 THEN [some |-> TRUE, result |-> 1]
  ELSE LET z == value
           x == shr(shl(1, bit_count(value - 1) + 1), 1)
       IN [some |-> TRUE, result |-> sqrt_loop(value, z, x)]

InitSqrt ==
  /\ vm = IdleEngine
  /\ vm2 = IdleEngine
  /\ rcs = IdleCounter
  /\ conv = IdleConversion
  /\ sb = ScriptBuilder_new
  /\ es = IdleStacks
  /\ sc = IdleScript
  /\ tj = IdleTarjan
  /\ \E value \in (0 - MaxValue)..MaxValue :
       sq = [stage |-> "asked", value |-> value, some |-> FALSE, result |-> 0]

SqrtCall ==
  /\ sq.stage = "asked"
  /\ sq' = [sq EXCEPT !.stage = "returned",
                      !.some = sqrt(sq.value).some,
                      !.result = sqrt(sq.value).result]
  /\ UNCHANGED <<vm, vm2, rcs, conv, sb, es, sc, tj>>

NextSqrt == SqrtCall

SpecSqrt == InitSqrt /\ [][NextSqrt]_vars

\* C40: sqrt returns None for a negative value and, for a value that is not
\* negative, the floor of its square root: the r >= 0 with
\* r*r <= value < (r+1)*(r+1).
C40_SqrtFloor ==
  sq.stage = "returned"
    => IF sq.value < 0 THEN ~sq.some
       ELSE /\ sq.some
            /\ sq.result >= 0
            /\ sq.result * sq.result <= sq.value
            /\ sq.value < (sq.result + 1) * (sq.result + 1)

====
